---- MODULE Spec2Model ----
(***************************************************************************)
(* Model of the calibration and rule-learning core of RefStats:            *)
(*   - CalibradorIsotonico / GerenciadorCalibracao                          *)
(*       (src/probabilidade_cartoes_v2.py)                                  *)
(*   - alimentar_calibradores      (src/validar_probabilidades_v2.py)       *)
(*   - BancoAprendizado / MotorAprendizado / retreinar_regras               *)
(*       (src/aprendizado_avancado.py)                                      *)
(*                                                                         *)
(* Numbers.  Probabilities and hit rates are Python floats.  They are kept *)
(* here as exact fractions <<n, d>> in lowest terms (d > 0); with the      *)
(* sample sizes of the model two different fractions differ by far more    *)
(* than a rounding error, so comparisons agree with the float ones.        *)
(*                                                                         *)
(* Observation lists.  pontos_x / pontos_y are parallel lists that the     *)
(* code only reads through len(), sorted(zip(..)) and per-bin sums, none   *)
(* of which depends on the order of the list.  The model keeps them as one *)
(* function  pontos : observation <<x, y>> -> number of occurrences.       *)
(***************************************************************************)
EXTENDS Integers, Sequences, FiniteSets, TLC

(***************************************************************************)
(* Bounds of the model.                                                    *)
(***************************************************************************)
\* most observations a calibrator (or a calibrator file) holds
MaxPontos == 10
\* most runs of the validation ingestion over one calibration folder
MaxIngestoes == 2
\* most adicionar_ponto calls on a calibrator that shares its file with the
\* validation ingestion
MaxAdicoes == 1
\* most records the learning store holds
MaxRegistros == 22
\* most candidate rules handed to the redundancy filter
MaxCandidatas == 3

(***************************************************************************)
(* Program constants.                                                      *)
(***************************************************************************)
\* treinar: identity below this many observations
MIN_PONTOS_CALIBRACAO == 10
\* width of a probability bin: int(x / 5) * 5
LARGURA_BIN == 5
\* alimentar_calibradores: a bin needs this many samples to enter the map
MIN_AMOSTRAS_BIN == 2

(***************************************************************************)
(* Inputs.                                                                 *)
(***************************************************************************)
\* raw probabilities an observation can carry, one per 5-point bin 50..95
PRawDom == {52 + 5 * i : i \in 0..9}
\* the raw probabilities adicionar_ponto is called with (bins 50, 60, 70)
PRaws == {52, 62, 72}
\* outcome of a validated forecast: 1.0 if acertou else 0.0
Resultados == {0, 1}
Obs == PRawDom \X Resultados
\* the raw probabilities calibrar is called with: below, inside (trained and
\* untrained bins) and above the bins of PRaws, and the end of [0, 100]
PConsultas == {47, 52, 57, 67, 100}
\* markets of GerenciadorCalibracao.mercados the model follows
Mercados == {"Over 3.5 Cartoes", "Under 3.5 Cartoes"}

VARIABLES
    mercado,    \* CalibradorIsotonico.mercado
    pontos,     \* CalibradorIsotonico.pontos_x / pontos_y
    treinado,   \* CalibradorIsotonico.treinado
    mapa,       \* CalibradorIsotonico._mapa_calibracao
    arquivo,    \* the market's .pkl file in pasta_calibracao
    ingestoes,  \* runs of alimentar_calibradores so far
    adicoes,    \* calls of adicionar_ponto so far
    ret,        \* what the last calibrar returned
    registros,  \* BancoAprendizado.registros
    regras,     \* BancoAprendizado.regras
    arquivoBanco, \* the file aprendizado.pkl
    candidatas, \* the argument of a call of _filtrar_redundantes
    filtradas,  \* the list that call returned
    partida,    \* the DadosPartida being analysed
    calculo,    \* the CalculoLambda calcular_lambda returned
    intervalo,  \* the IntervaloConfianca calcular_percentis returned
    probabilidades, \* the list calcular_probabilidades_mercados returned
    consulta,   \* the arguments of a call of verificar_regras
    ativadas,   \* the list that call returned
    pc,         \* where each concurrent validation run stands
    lido,       \* what each concurrent validation run read from the files
    rt,         \* the frame of a call of a retry_on_failure wrapper
    op,         \* the operation that ran last
    erro        \* the exception the last operation raised ("" if none)

calVars == <<mercado, pontos, treinado, mapa, arquivo, ingestoes, adicoes, ret>>
bancoVars == <<registros, regras, arquivoBanco>>
filtroVars == <<candidatas, filtradas>>
analiseVars == <<partida, calculo, intervalo, probabilidades>>
regraVars == <<consulta, ativadas>>
concVars == <<pc, lido>>
retryVars == <<rt>>
vars == <<calVars, bancoVars, filtroVars, analiseVars, regraVars, concVars, retryVars,
          op, erro>>

(***************************************************************************)
(* Fractions.                                                              *)
(***************************************************************************)
RECURSIVE GCD(_, _)
GCD(a, b) == IF b = 0 THEN a ELSE GCD(b, a % b)

Abs(n) == IF n < 0 THEN 0 - n ELSE n

\* the fraction n / d (d > 0) in lowest terms
Frac(n, d) == LET g == GCD(Abs(n), d) IN <<n \div g, d \div g>>

FracInt(n) == <<n, 1>>
FracLt(a, b) == a[1] * b[2] < b[1] * a[2]
FracLe(a, b) == a[1] * b[2] <= b[1] * a[2]
\* sums and products cancel common factors first, to stay within 32 bits
FracAdd(a, b) ==
    LET g == GCD(a[2], b[2])
    IN Frac(a[1] * (b[2] \div g) + b[1] * (a[2] \div g), (a[2] \div g) * b[2])
FracMul(a, b) ==
    LET g == GCD(Abs(a[1]), b[2])
        h == GCD(Abs(b[1]), a[2])
    IN Frac((a[1] \div g) * (b[1] \div h), (a[2] \div h) * (b[2] \div g))
\* a, not halved
FracInteira(a) == a
\* a / 2
FracHalf(a) == Frac(a[1], 2 * a[2])

(***************************************************************************)
(* Observations.                                                           *)
(***************************************************************************)
\* no observation; an observation is in the domain once it has occurred
SemPontos == [o \in {} |-> 0]

\* how many times observation o occurs in pts
Vezes(pts, o) == IF o \in DOMAIN pts THEN pts[o] ELSE 0

RECURSIVE SumOver(_, _)
\* the number of observations of pts that are in the set S
SumOver(pts, S) ==
    IF S = {} THEN 0
    ELSE LET e == CHOOSE x \in S : TRUE IN pts[e] + SumOver(pts, S \ {e})

\* len(self.pontos_x)
NumPontos(pts) == SumOver(pts, DOMAIN pts)

\* the two appends run twice
AppendDuasVezes(pts, x, y) ==
    [o \in DOMAIN pts \cup {<<x, y>>} |-> Vezes(pts, o) + (IF o = <<x, y>> THEN 2 ELSE 0)]

\* pontos_x.append(p_raw); pontos_y.append(1.0 if acertou else 0.0)
Append1(pts, x, y) ==
    [o \in DOMAIN pts \cup {<<x, y>>} |-> Vezes(pts, o) + (IF o = <<x, y>> THEN 1 ELSE 0)]

\* the bin above the one x lies in
BinAcima(x) == (x \div LARGURA_BIN + 1) * LARGURA_BIN

\* bin_idx = int(x / 5) * 5
Bin(x) == (x \div LARGURA_BIN) * LARGURA_BIN

\* the keys of the defaultdict bins
BinsDe(pts) == {Bin(o[1]) : o \in DOMAIN pts}

\* len(bins[b]) and sum(bins[b])
AmostrasBin(pts, b) == SumOver(pts, {o \in DOMAIN pts : Bin(o[1]) = b})
AcertosBin(pts, b) == SumOver(pts, {o \in DOMAIN pts : Bin(o[1]) = b /\ o[2] = 1})

\* the sum of a bin where its mean should be
MediaBinSemDividir(pts, b) == Frac(100 * AcertosBin(pts, b), 1)

\* sum(valores) / len(valores) * 100
MediaBin(pts, b) == Frac(100 * AcertosBin(pts, b), AmostrasBin(pts, b))

RECURSIVE SortedSeq(_)
\* sorted(S) for a finite set of integers
SortedSeq(S) ==
    IF S = {} THEN <<>>
    ELSE LET m == CHOOSE x \in S : \A y \in S : x <= y
         IN <<m>> \o SortedSeq(S \ {m})

(***************************************************************************)
(* The calibration map: None, or a dict  bin -> calibrated value.          *)
(***************************************************************************)
DictVazio == [b \in {} |-> <<0, 1>>]
MapaNone == [none |-> TRUE, bins |-> DictVazio]
MapaDe(d) == [none |-> FALSE, bins |-> d]

RECURSIVE Suavizar(_, _, _)
\* the loop "for i in range(1, len(chaves))" from index i (1-based: i >= 2):
\* an adjacent pair that decreases is replaced by its mean, once, left to right
Suavizar(d, chaves, i) ==
    IF i > Len(chaves) THEN d
    ELSE LET k_atual == chaves[i]
             k_anterior == chaves[i - 1]
         IN IF FracLt(d[k_atual], d[k_anterior])
            THEN LET media == FracHalf(FracAdd(d[k_atual], d[k_anterior]))
                 IN Suavizar([d EXCEPT ![k_atual] = media, ![k_anterior] = media],
                             chaves, i + 1)
            ELSE Suavizar(d, chaves, i + 1)

\* treinar without its minimum of observations
TreinarMapaSemMinimo(pts) ==
    IF NumPontos(pts) < 1
    THEN MapaNone
    ELSE LET medias == [b \in BinsDe(pts) |-> MediaBin(pts, b)]
         IN MapaDe(Suavizar(medias, SortedSeq(DOMAIN medias), 2))

\* CalibradorIsotonico.treinar: the value it leaves in _mapa_calibracao
TreinarMapa(pts) ==
    IF NumPontos(pts) < MIN_PONTOS_CALIBRACAO
    THEN MapaNone
    ELSE LET medias == [b \in BinsDe(pts) |-> MediaBin(pts, b)]
         IN MapaDe(Suavizar(medias, SortedSeq(DOMAIN medias), 2))

(***************************************************************************)
(* calibrar.                                                               *)
(***************************************************************************)
\* p: the argument; valor: the value returned; origem: the return statement
\* taken; chaves: the keys of the map the value was read from
Excecoes == {"IndexError"}
SemRetorno == [p |-> 0, valor |-> <<0, 1>>, origem |-> "nenhum", chaves |-> {}]
Retorno(p, v, origem, ks) == [p |-> p, valor |-> v, origem |-> origem, chaves |-> ks]

\* the value of the upper neighbour, with no weighting
InterpolarSemPeso(d, k, k2, b) == d[k2]

\* (1 - t) * d[k] + t * d[k2]  with  t = (b - k) / (k2 - k)
Interpolar(d, k, k2, b) ==
    LET t == Frac(b - k, k2 - k)
        umMenosT == Frac(k2 - b, k2 - k)
    IN FracAdd(FracMul(umMenosT, d[k]), FracMul(t, d[k2]))

\* The body of calibrar after the lazy training, on map m: the value returned
\* and the return statement that produced it; origem "IndexError" stands for
\* the exception chaves[0] raises on an empty dict.
CalibrarRet(m, p) ==
    IF m.none THEN Retorno(p, FracInt(p), "raw", {})
    ELSE LET d == m.bins
             b == Bin(p)
             chaves == SortedSeq(DOMAIN d)
         IN IF b \in DOMAIN d THEN Retorno(p, d[b], "bin", {b})
            ELSE IF chaves = <<>> THEN Retorno(p, <<0, 1>>, "IndexError", {})
            ELSE IF b < chaves[1] THEN Retorno(p, d[chaves[1]], "abaixo", {chaves[1]})
            ELSE IF b > chaves[Len(chaves)]
                 THEN Retorno(p, d[chaves[Len(chaves)]], "acima",
                              {chaves[Len(chaves)]})
            ELSE LET i == CHOOSE j \in 1..(Len(chaves) - 1) :
                              chaves[j] <= b /\ b < chaves[j + 1]
                 IN Retorno(p, Interpolar(d, chaves[i], chaves[i + 1], b),
                            "interpolado", {chaves[i], chaves[i + 1]})

(***************************************************************************)
(* The calibrator object: construction and its three methods.              *)
(***************************************************************************)
ArquivoAusente == [estado |-> "ausente", pontos |-> SemPontos, mapa |-> MapaNone]

\* CalibradorIsotonico.__init__(m), beside a calibration folder in state arq
CalibradorNovo(m, arq) ==
    /\ mercado = m
    /\ pontos = SemPontos
    /\ treinado = FALSE
    /\ mapa = MapaNone
    /\ arquivo = arq
    /\ ingestoes = 0
    /\ adicoes = 0
    /\ op = "init"
    /\ ret = SemRetorno
    /\ erro = ""

AdicionarPonto(x, y) ==
    /\ NumPontos(pontos) < MaxPontos
    /\ pontos' = Append1(pontos, x, y)
    /\ treinado' = FALSE
    /\ adicoes' = adicoes + 1
    /\ op' = "adicionar_ponto"
    /\ ret' = SemRetorno
    /\ erro' = ""
    /\ UNCHANGED <<mercado, mapa, arquivo, ingestoes>>
    /\ UNCHANGED <<bancoVars, filtroVars>>
    /\ UNCHANGED <<analiseVars, regraVars, concVars, retryVars>>

Treinar ==
    /\ mapa' = TreinarMapa(pontos)
    /\ treinado' = TRUE
    /\ op' = "treinar"
    /\ ret' = SemRetorno
    /\ erro' = ""
    /\ UNCHANGED <<mercado, pontos, arquivo, ingestoes, adicoes>>
    /\ UNCHANGED <<bancoVars, filtroVars>>
    /\ UNCHANGED <<analiseVars, regraVars, concVars, retryVars>>

Calibrar(p) ==
    LET m == IF treinado THEN mapa ELSE TreinarMapa(pontos)
        r == CalibrarRet(m, p)
    IN /\ mapa' = m
       /\ treinado' = TRUE
       /\ op' = "calibrar"
       /\ ret' = r
       /\ erro' = IF r.origem \in Excecoes THEN r.origem ELSE ""
       /\ UNCHANGED <<mercado, pontos, arquivo, ingestoes, adicoes>>
       /\ UNCHANGED <<bancoVars, filtroVars>>
       /\ UNCHANGED <<analiseVars, regraVars, concVars, retryVars>>


(***************************************************************************)
(* The calibration folder: one pickle file per market, written by          *)
(* CalibradorIsotonico.salvar and by alimentar_calibradores, read by       *)
(* GerenciadorCalibracao.carregar_todos and by alimentar_calibradores.     *)
(* estado is "ausente" (no file), "corrompido" (pickle.load raises) or     *)
(* "ok" (a dict with the keys pontos_x/pontos_y and mapa).                 *)
(***************************************************************************)
ArquivoCorrompido == [estado |-> "corrompido", pontos |-> SemPontos, mapa |-> MapaNone]
ArquivoOk(pts, m) == [estado |-> "ok", pontos |-> pts, mapa |-> m]

\* the two lists after extending one with the other
SomaPontos(a, b) == [o \in DOMAIN a \cup DOMAIN b |-> Vezes(a, o) + Vezes(b, o)]

\* 'Over' in mercado
EhOver(m) == m \in {"Over 3.5 Cartoes", "Over 4.5 Cartoes"}

\* alimentar_calibradores, "Recalcula mapa de calibracao": the dict it builds
\* from at least 10 observations; a bin enters with 2 samples or more, and
\* the smoothing pass runs for an Over market only
MapaAlimentar(pts, m) ==
    LET medias == [b \in {c \in BinsDe(pts) : AmostrasBin(pts, c) >= MIN_AMOSTRAS_BIN}
                     |-> MediaBin(pts, b)]
    IN IF EhOver(m) /\ DOMAIN medias # {}
       THEN MapaDe(Suavizar(medias, SortedSeq(DOMAIN medias), 2))
       ELSE MapaDe(medias)

\* alimentar_calibradores, one market of its loop: the file it writes when it
\* finds the file arq and the market's new validations are dados
ArquivoAlimentado(arq, m, dados) ==
    LET existentes == IF arq.estado = "ok" THEN arq
                      ELSE ArquivoOk(SemPontos, MapaNone)
        pts == SomaPontos(existentes.pontos, dados)
    IN ArquivoOk(pts,
                 IF NumPontos(pts) >= MIN_PONTOS_CALIBRACAO
                 THEN MapaAlimentar(pts, m)
                 ELSE existentes.mapa)

\* The validations of one market in one run: n forecasts of outcome y whose raw
\* probabilities are x0, x0 + passo, x0 + 2 passo, ...
Lote(x0, passo, n, y) ==
    IF passo = 0 THEN (<<x0, y>> :> n)
    ELSE [o \in {<<x0 + passo * i, y>> : i \in 0..(n - 1)} |-> 1]

\* sizes of the runs: one validation, half a training set, a whole one
TamanhosLote == {1, MIN_PONTOS_CALIBRACAO \div 2, MIN_PONTOS_CALIBRACAO}

LotesDados ==
    {Lote(x0, passo, n, y) : x0 \in {52, 57}, passo \in {0, LARGURA_BIN},
                             n \in TamanhosLote, y \in Resultados}

\* GerenciadorCalibracao.salvar_todos -> CalibradorIsotonico.salvar
SalvarTodos ==
    /\ arquivo' = ArquivoOk(pontos, mapa)
    /\ op' = "salvar"
    /\ ret' = SemRetorno
    /\ erro' = ""
    /\ UNCHANGED <<mercado, pontos, treinado, mapa, ingestoes, adicoes>>
    /\ UNCHANGED <<bancoVars, filtroVars>>
    /\ UNCHANGED <<analiseVars, regraVars, concVars, retryVars>>

\* GerenciadorCalibracao.__init__: a fresh calibrator per market, replaced by
\* CalibradorIsotonico.carregar(file) when the file exists and loads
CalibradorCarregado(arq) ==
    IF arq.estado = "ok"
    THEN [pontos |-> arq.pontos, mapa |-> arq.mapa, treinado |-> TRUE, erro |-> ""]
    ELSE [pontos |-> SemPontos, mapa |-> MapaNone, treinado |-> FALSE, erro |-> ""]

CarregarTodos ==
    LET c == CalibradorCarregado(arquivo)
    IN /\ pontos' = c.pontos
       /\ mapa' = c.mapa
       /\ treinado' = c.treinado
       /\ erro' = c.erro
       /\ op' = "carregar"
       /\ ret' = SemRetorno
       /\ UNCHANGED <<mercado, arquivo, ingestoes, adicoes>>
       /\ UNCHANGED <<bancoVars, filtroVars>>
       /\ UNCHANGED <<analiseVars, regraVars, concVars, retryVars>>


(***************************************************************************)
(* Rule mining: MotorAprendizado (src/aprendizado_avancado.py).            *)
(*                                                                         *)
(* A record (RegistroAprendizado) is                                       *)
(*    [partida |-> the derived factors of the match,                       *)
(*     resultado |-> [mercado, faixa_prob, acertou]].                      *)
(* faixa_prob is a field of the resultado; the partida has no such field.  *)
(* The corpus is kept as  i -> number of occurrences of the record         *)
(* RegistrosEntrada[i]: it stands for the list in which equal records are  *)
(* adjacent, in the order of RegistrosEntrada.  The order of the list      *)
(* decides nothing but the order in which rules of equal sort key come     *)
(* out.                                                                    *)
(* A rule (RegraDeOuro) keeps id, mercado, condicoes, total_amostras,      *)
(* acertos, taxa_acerto and nivel; cor and descricao are display texts     *)
(* derived from these and are left out.                                    *)
(***************************************************************************)
MIN_AMOSTRAS_REGRA == 8
THRESHOLD_OURO == 75
THRESHOLD_PLATINA == 85
THRESHOLD_DIAMANTE == 90
MERCADOS_EXCLUIDOS_REGRAS == {"Under 5.5 Cartoes"}

\* FATORES_ANALISE, cut to four of its fifteen entries, in their order
FATORES_ANALISE ==
    <<"faixa_lambda", "perfil_arbitro", "faixa_prob", "tendencia_recente">>

\* n_fatores in [1, 2, 3]
MaxFatores == 3

\* three matches: two built by criar_dados_partida_aprendizado (every derived
\* factor set, the referee trend unknown in the first), one built directly
\* with only faixa_lambda filled in
PartidaRigoroso ==
    [faixa_lambda |-> "Alto", perfil_arbitro |-> "Rigoroso",
     tendencia_recente |-> "Desconhecido"]
PartidaPermissivo ==
    [faixa_lambda |-> "Alto", perfil_arbitro |-> "Permissivo",
     tendencia_recente |-> "Subindo"]
PartidaSoLambda ==
    [faixa_lambda |-> "Alto", perfil_arbitro |-> "", tendencia_recente |-> ""]

\* the (match, market) pairs of the forecasts that reach the store
ParesEntrada ==
    << <<PartidaRigoroso, "Over 3.5 Cartoes">>,
       <<PartidaPermissivo, "Over 3.5 Cartoes">>,
       <<PartidaSoLambda, "Over 3.5 Cartoes">>,
       <<PartidaRigoroso, "Over 4.5 Cartoes">>,
       <<PartidaRigoroso, "Under 5.5 Cartoes">> >>

MercadosBanco == {ParesEntrada[i][2] : i \in DOMAIN ParesEntrada}

\* RegistroAprendizado(partida, resultado)
Registro(par, acertou) ==
    [partida |-> par[1],
     resultado |-> [mercado |-> par[2], faixa_prob |-> "60-65", acertou |-> acertou]]

\* the records in the order the corpus list holds them
RegistrosEntrada ==
    [i \in 1..(2 * Len(ParesEntrada)) |->
        Registro(ParesEntrada[(i + 1) \div 2], i % 2 = 1)]

SemRegistros == [i \in {} |-> 0]

\* how many records of corpus reg are in the set S of records
Quantos(reg, S) ==
    SumOver(reg, {i \in DOMAIN reg : RegistrosEntrada[i] \in S})

\* len(banco.registros)
TotalRegistros(reg) == SumOver(reg, DOMAIN reg)

\* the records of corpus reg, one of each, in list order
ListaDe(reg) ==
    LET idx == SortedSeq(DOMAIN reg) IN [k \in 1..Len(idx) |-> RegistrosEntrada[idx[k]]]

\* the records of market m
DoMercado(reg, m) ==
    {r \in {RegistrosEntrada[i] : i \in DOMAIN reg} : r.resultado.mercado = m}

RECURSIVE Concat(_)
\* the concatenation of a sequence of sequences
Concat(ss) == IF ss = <<>> THEN <<>> ELSE Head(ss) \o Concat(Tail(ss))

Range(q) == {q[i] : i \in DOMAIN q}

RECURSIVE SemRepetidos(_)
\* q without its repeated elements, each kept where it first occurs
SemRepetidos(q) ==
    IF q = <<>> THEN <<>>
    ELSE LET antes == SemRepetidos(SubSeq(q, 1, Len(q) - 1))
             x == q[Len(q)]
         IN IF x \in Range(antes) THEN antes ELSE Append(antes, x)

RECURSIVE CombinacoesDe(_, _)
\* itertools.combinations: the n-element index combinations of
\* ini..Len(FATORES_ANALISE), in lexicographic order
CombinacoesDe(ini, n) ==
    IF n = 0 THEN << <<>> >>
    ELSE Concat([i \in 1..(Len(FATORES_ANALISE) - ini + 1) |->
            LET j == ini + i - 1
                resto == CombinacoesDe(j + 1, n - 1)
            IN [c \in 1..Len(resto) |-> <<j>> \o resto[c]]])

\* combinations(FATORES_ANALISE, n) as tuples of factor names
Combinacoes(n) ==
    LET idx == CombinacoesDe(1, n)
    IN [c \in 1..Len(idx) |-> [i \in 1..n |-> FATORES_ANALISE[idx[c][i]]]]

\* the combinations of 1, 2 and 3 factors
TodasCombinacoes == [n \in 1..MaxFatores |-> Combinacoes(n)]

\* getattr(r.partida, fator, None)
ValorFator(r, fator) ==
    IF fator \in DOMAIN r.partida THEN r.partida[fator] ELSE "None"

\* the loop over fatores breaks on None, "" and "Desconhecido"
ValorUsavel(v) == v \notin {"None", "", "Desconhecido"}

\* tuple(valores) when no factor of the combination broke the loop
ChaveDe(r, fatores) ==
    [i \in 1..Len(fatores) |-> <<fatores[i], ValorFator(r, fatores[i])>>]

TemChave(r, fatores) ==
    \A i \in 1..Len(fatores) : ValorUsavel(ValorFator(r, fatores[i]))

\* dict(chave)
CondicoesDe(chave) ==
    [f \in {chave[i][1] : i \in 1..Len(chave)} |->
        (CHOOSE par \in Range(chave) : par[1] = f)[2]]

\* taxa >= limiar, for taxa = acertos / total * 100
TaxaAtinge(taxa, limiar) == FracLe(FracInt(limiar), taxa)

NivelDe(taxa) ==
    IF TaxaAtinge(taxa, THRESHOLD_DIAMANTE) THEN "Diamante"
    ELSE IF TaxaAtinge(taxa, THRESHOLD_PLATINA) THEN "Platina"
    ELSE "Ouro"

Regra(id, m, conds, total, acertos, taxa) ==
    [id |-> id, mercado |-> m, condicoes |-> conds, total_amostras |-> total,
     acertos |-> acertos, taxa_acerto |-> taxa, nivel |-> NivelDe(taxa)]

\* "Analisa cada grupo" without the 8-sample minimum
RegrasDoGrupoSemMinimo(m, reg, lista, fatores, chave) ==
    LET grupo == {r \in Range(lista) : TemChave(r, fatores) /\ ChaveDe(r, fatores) = chave}
        total == Quantos(reg, grupo)
        acertos == Quantos(reg, {r \in grupo : r.resultado.acertou})
        taxa == Frac(acertos * 100, total)
    IN IF TaxaAtinge(taxa, THRESHOLD_OURO)
       THEN << Regra(0, m, CondicoesDe(chave), total, acertos, taxa) >>
       ELSE <<>>

\* _testar_combinacoes, "Analisa cada grupo": the rule of one group, if any.
\* lista is the market's records in list order, reg their numbers.
RegrasDoGrupo(m, reg, lista, fatores, chave) ==
    LET grupo == {r \in Range(lista) : TemChave(r, fatores) /\ ChaveDe(r, fatores) = chave}
        total == Quantos(reg, grupo)
        acertos == Quantos(reg, {r \in grupo : r.resultado.acertou})
        taxa == Frac(acertos * 100, total)
    IN IF total < MIN_AMOSTRAS_REGRA THEN <<>>
       ELSE IF TaxaAtinge(taxa, THRESHOLD_OURO)
            THEN << Regra(0, m, CondicoesDe(chave), total, acertos, taxa) >>
            ELSE <<>>

\* _testar_combinacoes for one combination: its groups in insertion order
RegrasDaCombinacao(m, reg, lista, fatores) ==
    LET comChave == SelectSeq(lista, LAMBDA r : TemChave(r, fatores))
        chaves == SemRepetidos([i \in 1..Len(comChave) |-> ChaveDe(comChave[i], fatores)])
    IN Concat([k \in 1..Len(chaves) |-> RegrasDoGrupo(m, reg, lista, fatores, chaves[k])])

\* _testar_combinacoes(mercado, registros, n_fatores)
TestarCombinacoes(m, reg, lista, n) ==
    LET combs == TodasCombinacoes[n]
    IN Concat([c \in 1..Len(combs) |-> RegrasDaCombinacao(m, reg, lista, combs[c])])

\* _eh_subconjunto with its arguments exchanged
EhSuperconjunto(menor, maior) ==
    \A k \in DOMAIN maior : k \in DOMAIN menor /\ menor[k] = maior[k]

\* _eh_subconjunto(menor, maior)
EhSubconjunto(menor, maior) ==
    \A k \in DOMAIN menor : k \in DOMAIN maior /\ maior[k] = menor[k]

NumCondicoes(r) == Cardinality(DOMAIN r.condicoes)

\* _filtrar_redundantes without its sort
SemOrdenar(q) == q

RECURSIVE OrdenarPorCondicoes(_)
\* regras.sort(key=lambda r: -len(r.condicoes)): a stable sort
OrdenarPorCondicoes(q) ==
    IF q = <<>> THEN <<>>
    ELSE LET antes == OrdenarPorCondicoes(SubSeq(q, 1, Len(q) - 1))
             x == q[Len(q)]
             \* x goes behind every rule that has at least as many conditions
             n == Cardinality({i \in 1..Len(antes) : NumCondicoes(antes[i]) >= NumCondicoes(x)})
         IN SubSeq(antes, 1, n) \o <<x>> \o SubSeq(antes, n + 1, Len(antes))

RECURSIVE Aceitas(_, _)
\* the loop of _filtrar_redundantes over the first i rules of ord: the list
\* filtradas; a rule is dropped when its conditions are a subset of the
\* conditions of a rule accepted before it
Aceitas(ord, i) ==
    IF i = 0 THEN <<>>
    ELSE LET ant == Aceitas(ord, i - 1)
         IN IF \E j \in 1..Len(ant) : EhSubconjunto(ord[i].condicoes, ant[j].condicoes)
            THEN ant
            ELSE Append(ant, ord[i])

\* descobrir_regras without the redundancy filter
SemFiltrar(q) == q

\* _filtrar_redundantes(regras)
FiltrarRedundantes(q) ==
    IF q = <<>> THEN <<>>
    ELSE LET ord == OrdenarPorCondicoes(q) IN Aceitas(ord, Len(ord))

\* the key of the final sort, (-taxa_acerto, -total_amostras): a goes
\* strictly before b
AntesNaOrdem(a, b) ==
    \/ FracLt(b.taxa_acerto, a.taxa_acerto)
    \/ a.taxa_acerto = b.taxa_acerto /\ a.total_amostras > b.total_amostras

\* the rules of all markets left in the order they were found
SemOrdenarPorTaxa(q) == q

RECURSIVE OrdenarPorTaxa(_)
\* todas_regras.sort(key=lambda r: (-r.taxa_acerto, -r.total_amostras))
OrdenarPorTaxa(q) ==
    IF q = <<>> THEN <<>>
    ELSE LET antes == OrdenarPorTaxa(SubSeq(q, 1, Len(q) - 1))
             x == q[Len(q)]
             n == Cardinality({i \in 1..Len(antes) : ~AntesNaOrdem(x, antes[i])})
         IN SubSeq(antes, 1, n) \o <<x>> \o SubSeq(antes, n + 1, Len(antes))

\* for i, regra in enumerate(todas_regras, 1): regra.id = i
AtribuirIds(q) == [i \in 1..Len(q) |-> [q[i] EXCEPT !.id = i]]

(***************************************************************************)
(* descobrir_regras over a corpus.                                         *)
(***************************************************************************)
\* the body of the market loop given the records of every market
RegrasDoMercadoSemAgrupar(m, reg) ==
    IF m \in MERCADOS_EXCLUIDOS_REGRAS THEN <<>>
    ELSE FiltrarRedundantes(
           Concat([n \in 1..MaxFatores |-> TestarCombinacoes(m, reg, ListaDe(reg), n)]))

\* descobrir_regras, the body of "for mercado, registros in por_mercado"
RegrasDoMercado(m, reg) ==
    LET lista == SelectSeq(ListaDe(reg), LAMBDA r : r.resultado.mercado = m)
    IN IF m \in MERCADOS_EXCLUIDOS_REGRAS THEN <<>>
       ELSE IF Quantos(reg, DoMercado(reg, m)) < MIN_AMOSTRAS_REGRA THEN <<>>
       ELSE FiltrarRedundantes(
              Concat([n \in 1..MaxFatores |-> TestarCombinacoes(m, reg, lista, n)]))

\* MotorAprendizado.descobrir_regras over the corpus reg
DescobrirRegras(reg) ==
    LET lista == ListaDe(reg)
        \* the keys of por_mercado, in insertion order
        ms == SemRepetidos([i \in 1..Len(lista) |-> lista[i].resultado.mercado])
    IN AtribuirIds(OrdenarPorTaxa(
          Concat([i \in 1..Len(ms) |-> RegrasDoMercado(ms[i], reg)])))

(***************************************************************************)
(* The learning store: BancoAprendizado and its pickle file.               *)
(***************************************************************************)
MIN_REGISTROS_RETREINO == 20

ArquivoBancoAusente == [estado |-> "ausente", registros |-> SemRegistros, regras |-> <<>>]
ArquivoBancoCorrompido == [estado |-> "corrompido", registros |-> SemRegistros, regras |-> <<>>]
ArquivoBancoOk(reg, rs) == [estado |-> "ok", registros |-> reg, regras |-> rs]

\* BancoAprendizado.__init__ beside a file that is absent or does not load
BancoNovo(arq) ==
    /\ registros = SemRegistros
    /\ regras = <<>>
    /\ arquivoBanco = arq

\* BancoAprendizado.carregar with the "except Exception" handler left out
BancoCarregadoSemExcept(arq) ==
    IF arq.estado = "ok"
    THEN [registros |-> arq.registros, regras |-> arq.regras, erro |-> ""]
    ELSE [registros |-> SemRegistros, regras |-> <<>>,
          erro |-> IF arq.estado = "corrompido" THEN "UnpicklingError" ELSE ""]

\* BancoAprendizado.__init__: empty lists, then carregar()
BancoCarregado(arq) ==
    IF arq.estado = "ok"
    THEN [registros |-> arq.registros, regras |-> arq.regras, erro |-> ""]
    ELSE [registros |-> SemRegistros, regras |-> <<>>, erro |-> ""]

\* obter_banco_aprendizado in a new process
CarregarBanco ==
    LET b == BancoCarregado(arquivoBanco)
    IN /\ registros' = b.registros
       /\ regras' = b.regras
       /\ erro' = b.erro
       /\ op' = "carregar_banco"
       /\ UNCHANGED <<arquivoBanco, calVars, filtroVars>>
       /\ UNCHANGED <<analiseVars, regraVars, concVars, retryVars>>

\* retreinar_regras with the new rules appended to the stored ones
RegrasAcumuladas(reg, anteriores) == anteriores \o DescobrirRegras(reg)

\* retreinar_regras: the value it assigns to banco.regras
RegrasRetreinadas(reg, anteriores) == DescobrirRegras(reg)

RetreinarRegras ==
    LET rs == RegrasRetreinadas(registros, regras)
    IN /\ regras' = rs
       /\ arquivoBanco' = ArquivoBancoOk(registros, rs)
       /\ op' = "retreinar_regras"
       /\ erro' = ""
       /\ UNCHANGED <<registros, calVars, filtroVars>>
       /\ UNCHANGED <<analiseVars, regraVars, concVars, retryVars>>

\* the records of one run: acertos hits and erros misses of the forecasts
\* of pair i
LoteBanco(i, acertos, erros) ==
    [k \in {j \in {2 * i - 1, 2 * i} :
              IF RegistrosEntrada[j].resultado.acertou THEN acertos > 0 ELSE erros > 0}
       |-> IF RegistrosEntrada[k].resultado.acertou THEN acertos ELSE erros]

\* hits and misses of a run: around the 8-sample minimum and the 75% line
AcertosLote == {0} \cup ((MIN_AMOSTRAS_REGRA - 2)..(MIN_AMOSTRAS_REGRA + 1))
ErrosLote == {0, 2}

LotesBanco ==
    {LoteBanco(i, a, e) : i \in DOMAIN ParesEntrada, a \in AcertosLote, e \in ErrosLote}

\* alimentar_banco_aprendizado without its retrain
BancoAlimentadoSemRetreino(reg, rs, lote) ==
    [registros |-> SomaPontos(reg, lote), regras |-> rs]

\* alimentar_banco_aprendizado: the store and its file after the run
BancoAlimentado(reg, rs, lote) ==
    LET reg2 == SomaPontos(reg, lote)
    IN [registros |-> reg2,
        regras |-> IF TotalRegistros(reg2) >= MIN_REGISTROS_RETREINO
                   THEN RegrasRetreinadas(reg2, rs)
                   ELSE rs]

\* alimentar_calibradores(relatorios): the validations of the market are
\* dados, the forecasts of the matches are lote
AlimentarCalibradores(dados, lote) ==
    LET b == BancoAlimentado(registros, regras, lote)
    IN /\ ingestoes < MaxIngestoes
       /\ \A o \in DOMAIN dados : o \in Obs
       /\ NumPontos(arquivo.pontos) + NumPontos(dados) <= MaxPontos
       /\ TotalRegistros(registros) + TotalRegistros(lote) <= MaxRegistros
       /\ arquivo' = IF DOMAIN dados = {} THEN arquivo
                     ELSE ArquivoAlimentado(arquivo, mercado, dados)
       /\ registros' = b.registros
       /\ regras' = b.regras
       /\ arquivoBanco' = ArquivoBancoOk(b.registros, b.regras)
       /\ ingestoes' = ingestoes + 1
       /\ op' = "alimentar_calibradores"
       /\ ret' = SemRetorno
       /\ erro' = ""
       /\ UNCHANGED <<mercado, pontos, treinado, mapa, adicoes, filtroVars>>
       /\ UNCHANGED <<analiseVars, regraVars, concVars, retryVars>>

(***************************************************************************)
(* _filtrar_redundantes on its own, over hand-built candidate lists.       *)
(***************************************************************************)
\* RegraDeOuro(id=0, ...) with a given support and hit rate (in percent)
RegraSintetica(conds, total, taxa) ==
    Regra(0, "Over 3.5 Cartoes", conds, total, (total * taxa) \div 100, FracInt(taxa))

RegrasCandidatas ==
    { RegraSintetica([faixa_lambda |-> "Alto"], 20, 80),
      RegraSintetica([faixa_lambda |-> "Alto", perfil_arbitro |-> "Rigoroso"], 10, 85),
      RegraSintetica([perfil_arbitro |-> "Rigoroso"], 12, 75),
      RegraSintetica([faixa_lambda |-> "Alto", perfil_arbitro |-> "Permissivo"], 9, 90),
      RegraSintetica([faixa_lambda |-> "Alto", perfil_arbitro |-> "Rigoroso",
                      tendencia_recente |-> "Subindo"], 8, 100),
      RegraSintetica([faixa_lambda |-> "Baixo"], 15, 80) }

\* the lists of up to MaxCandidatas different candidate rules
ListasCandidatas ==
    UNION {{q \in [1..n -> RegrasCandidatas] :
              \A i, j \in 1..n : i # j => q[i] # q[j]} : n \in 0..MaxCandidatas}

FiltroParado ==
    /\ candidatas = <<>>
    /\ filtradas = <<>>

\* regras_mercado = self._filtrar_redundantes(regras_mercado)
Filtrar ==
    /\ filtradas' = FiltrarRedundantes(candidatas)
    /\ op' = "filtrar"
    /\ erro' = ""
    /\ UNCHANGED <<candidatas, calVars, bancoVars>>
    /\ UNCHANGED <<analiseVars, regraVars, concVars, retryVars>>


(***************************************************************************)
(* The lambda estimator (calcular_lambda).  Averages and weights are       *)
(* fractions; QualidadeDados is taken as avaliar_qualidade_dados returned  *)
(* it, in whole points.                                                    *)
(***************************************************************************)
FracSub(a, b) == FracAdd(a, <<0 - b[1], b[2]>>)
\* a / b for b > 0
FracDiv(a, b) == Frac(a[1] * b[2], a[2] * b[1])
FracMax(a, b) == IF FracLt(a, b) THEN b ELSE a
FracMin(a, b) == IF FracLt(b, a) THEN b ELSE a

\* no limit at all
SemLimitar(lo, hi, x) == x

\* max(lo, min(hi, x))
Limitar(lo, hi, x) == FracMax(lo, FracMin(hi, x))

LAMBDA_MIN == 2
LAMBDA_MAX == 10
LAMBDA_FALLBACK == 5

\* round(x, 2), in hundredths
Centesimos(x) == (2 * 100 * x[1] + x[2]) \div (2 * x[2])

\* DISPERSAO_POR_LIGA, DISPERSAO_GLOBAL
Ligas == {"Premier League", "Copa do Brasil"}
ObterDispersaoLiga(liga) ==
    CASE liga = "Premier League" -> FracInt(4)
      [] liga = "Copa do Brasil" -> Frac(5, 2)
      [] OTHER -> FracInt(3)

\* 'copa' in liga.lower(), the one term a league of Ligas has
EhCompeticaoCopa(liga) == liga = "Copa do Brasil"

\* the smallest factor whatever the sample
FatorAmostraMinimo(n) == Frac(3, 10)

\* the factor the referee sample size gives
FatorAmostra(n) ==
    IF n >= 10 THEN FracInt(1)
    ELSE IF n >= 7 THEN Frac(9, 10)
    ELSE IF n >= 5 THEN Frac(3, 4)
    ELSE IF n >= 3 THEN Frac(1, 2)
    ELSE Frac(3, 10)

\* the weight 1: full trust in the model, no shrinkage
PesoSemShrinkage(q, n) == FracInt(1)

\* calcular_peso_shrinkage(qualidade, n_jogos_arbitro)[0]
CalcularPesoShrinkage(q, n) ==
    LET w_base == Frac(q.score_total, 100)
        fator_completude == Frac(q.completude_arbitro + q.completude_times, 200)
        w == FracMul(FracMul(w_base, FatorAmostra(n)),
                     FracAdd(Frac(1, 2), FracHalf(fator_completude)))
    IN Limitar(Frac(3, 10), Frac(19, 20), w)

\* calcular_lambda(partida), with qualidade = pt.qualidade
CalcularLambda(pt) ==
    LET zero == FracInt(0)
        lambda_base == IF FracLe(pt.media_liga, zero)
                       THEN FracInt(LAMBDA_FALLBACK) ELSE pt.media_liga
        m5a == IF FracLe(pt.media_amarelos_5j, zero)
               THEN pt.media_amarelos_10j ELSE pt.media_amarelos_5j
        m10a == IF FracLe(pt.media_amarelos_10j, zero) THEN m5a
                ELSE pt.media_amarelos_10j
        semMedias == FracLe(m5a, zero) /\ FracLe(m10a, zero)
        media_5j == IF semMedias THEN lambda_base ELSE m5a
        media_10j == IF semMedias THEN lambda_base ELSE m10a
        media_arbitro_ponderada ==
            FracAdd(FracMul(Frac(6, 10), media_5j), FracMul(Frac(4, 10), media_10j))
        delta_arbitro ==
            FracMul(Frac(8, 10), FracSub(media_arbitro_ponderada, lambda_base))
        amarelos_mandante == IF FracLe(pt.amarelos_mandante, zero)
                             THEN FracHalf(lambda_base) ELSE pt.amarelos_mandante
        amarelos_visitante == IF FracLe(pt.amarelos_visitante, zero)
                              THEN FracHalf(lambda_base) ELSE pt.amarelos_visitante
        soma_amarelos_times == FracAdd(amarelos_mandante, amarelos_visitante)
        delta_times == FracMul(Frac(6, 10), FracSub(soma_amarelos_times, lambda_base))
        fator_recencia_raw ==
            IF FracLt(zero, media_10j)
            THEN FracAdd(FracInt(1), FracDiv(FracSub(media_5j, media_10j), media_10j))
            ELSE FracInt(1)
        fator_recencia_capado == Limitar(Frac(95, 100), Frac(105, 100), fator_recencia_raw)
        ajuste_recencia == FracMul(lambda_base, FracSub(fator_recencia_capado, FracInt(1)))
        lambda_raw ==
            Limitar(FracInt(LAMBDA_MIN), FracInt(LAMBDA_MAX),
                    FracAdd(FracAdd(lambda_base, delta_arbitro),
                            FracAdd(delta_times, ajuste_recencia)))
        peso_w == CalcularPesoShrinkage(pt.qualidade, pt.n_jogos_disponiveis)
        lambda_shrunk ==
            Limitar(FracInt(LAMBDA_MIN), FracInt(LAMBDA_MAX),
                    FracAdd(FracMul(peso_w, lambda_raw),
                            FracMul(FracSub(FracInt(1), peso_w), lambda_base)))
        r0 == ObterDispersaoLiga(pt.competicao)
        r1 == IF pt.perfil = "Rigoroso" THEN FracMul(r0, Frac(85, 100))
              ELSE IF pt.perfil = "Permissivo" THEN FracMul(r0, Frac(11, 10))
              ELSE r0
        dispersao_r == IF EhCompeticaoCopa(pt.liga) THEN FracMul(r1, Frac(9, 10)) ELSE r1
    IN [lambda_base |-> lambda_base,
        delta_arbitro |-> delta_arbitro,
        delta_times |-> delta_times,
        ajuste_recencia |-> ajuste_recencia,
        lambda_final_raw |-> lambda_raw,
        peso_shrinkage |-> peso_w,
        lambda_shrunk |-> lambda_shrunk,
        media_5j_arbitro |-> media_5j,
        media_10j_arbitro |-> media_10j,
        media_arbitro_ponderada |-> media_arbitro_ponderada,
        amarelos_mandante |-> amarelos_mandante,
        amarelos_visitante |-> amarelos_visitante,
        soma_amarelos_times |-> soma_amarelos_times,
        fator_recencia_raw |-> fator_recencia_raw,
        fator_recencia_capado |-> fator_recencia_capado,
        dispersao_r |-> dispersao_r,
        qualidade_dados |-> pt.qualidade]

\* the league baselines, referee averages and team averages of the matches
\* analysed: missing (0), negative, ordinary and beyond the limits of lambda
MediasLiga == {FracInt(0), Frac(3, 2), Frac(27, 5), FracInt(12)}
Medias5j == {FracInt(0 - 1), FracInt(0), FracInt(5), Frac(31, 5)}
Medias10j == {FracInt(0), FracInt(5), Frac(26, 5)}
AmarelosMandante == {FracInt(0), Frac(5, 2), FracInt(6)}
AmarelosVisitante == {FracInt(0 - 1), FracInt(2)}
\* the QualidadeDados records and referee sample sizes
Qualidades ==
    [score_total : {20, 70, 100}, completude_arbitro : {0, 100},
     completude_times : {100}]
NJogos == {2, 7, 10}
Perfis == {"Rigoroso", "Medio"}

PartidasLambda ==
    {[media_liga |-> b, media_amarelos_5j |-> m5, media_amarelos_10j |-> m10,
      amarelos_mandante |-> am, amarelos_visitante |-> av,
      n_jogos_disponiveis |-> n, qualidade |-> q,
      liga |-> l, competicao |-> l, perfil |-> pf] :
        b \in MediasLiga, m5 \in Medias5j, m10 \in Medias10j,
        am \in AmarelosMandante, av \in AmarelosVisitante,
        n \in NJogos, q \in Qualidades, l \in Ligas, pf \in Perfis}

Nenhum == [nenhum |-> TRUE]

AnaliseParada ==
    /\ partida = Nenhum
    /\ calculo = Nenhum
    /\ intervalo = Nenhum
    /\ probabilidades = <<>>

\* calculo = calcular_lambda(partida)
CalcularLambdaPartida ==
    /\ calculo' = CalcularLambda(partida)
    /\ op' = "calcular_lambda"
    /\ erro' = ""
    /\ UNCHANGED <<partida, intervalo, probabilidades>>
    /\ UNCHANGED <<calVars, bancoVars, filtroVars, regraVars, concVars, retryVars>>

(***************************************************************************)
(* The distributions.  A probability is a whole number of millionths; the  *)
(* values of the two mass functions (built on math.exp, math.lgamma and   *)
(* powers) are the ones the functions return for the parameters the model  *)
(* uses, rounded down to a millionth.                                      *)
(***************************************************************************)
ESCALA == 1000000

\* int(x)
Truncar(x) == IF x[1] >= 0 THEN x[1] \div x[2] ELSE 0 - ((0 - x[1]) \div x[2])

Minimo(a, b) == IF b < a THEN b ELSE a
Maximo(a, b) == IF a < b THEN b ELSE a

\* math.exp(-lambda_) * lambda_^k / k!  for k = 0, 1, ...
TabelaPoisson(lambda_) ==
    CASE lambda_ = FracInt(5) ->
        <<6737, 33689, 84224, 140373, 175467, 175467, 146222, 104444, 65278,
          36265, 18132, 8242, 3434, 1320, 471, 157, 49, 14, 4, 1, 0, 0, 0, 0,
          0, 0>>
      [] lambda_ = FracInt(2) ->
        <<135335, 270670, 270670, 180447, 90223, 36089, 12029, 3437, 859, 190,
          38, 6, 1, 0, 0, 0, 0>>

\* poisson_pmf(k, lambda_)
PoissonPmf(k, lambda_) ==
    IF FracLe(lambda_, FracInt(0)) THEN (IF k = 0 THEN ESCALA ELSE 0)
    ELSE IF k < 0 THEN 0
    ELSE TabelaPoisson(lambda_)[k + 1]

\* coef * p^r * (1 - p)^k  for k = 0, 1, ...
TabelaNegBin(r, p) ==
    CASE r = FracInt(4) /\ p = Frac(20000, 46951) ->
        <<32926, 75601, 108492, 124554, 125120, 114915, 98946, 81139, 64041,
          49015, 36576, 26722, 19173, 13546, 9442, 6504, 4433, 2994, 2005,
          1332, 879, 577, 376, 244, 157, 101, 64>>
      [] r = Frac(153, 80) /\ p = Frac(153, 953) ->
        <<30248, 48563, 59366, 64993, 67005, 66513, 64326, 61038, 57083,
          52777, 48346, 43951, 39700, 35666, 31891, 28400, 25200, 22290,
          19660, 17296, 15181, 13298, 11626, 10147, 8841, 7693, 6684, 5801,
          5028, 4354, 3766, 3254, 2810, 2424, 2089, 1799, 1549, 1332, 1145,
          984, 844>>
      [] r = FracInt(4) /\ p = Frac(2, 3) ->
        <<197530, 263374, 219478, 146319, 85352, 45521, 22760, 10838, 4967,
          2207, 956, 405, 169, 69, 28, 11, 4>>
      [] r = FracInt(14000) /\ p = Frac(999, 1000) ->
        <<0, 11, 80, 377, 1322, 3703, 8644, 17296, 30283, 47134, 66031, 84099,
          98193, 105837, 105935, 98971, 86693>>

\* negative_binomial_pmf(k, r, p)
NegativeBinomialPmf(k, r, p) ==
    IF FracLe(r, FracInt(0)) \/ FracLe(p, FracInt(0)) \/ FracLe(FracInt(1), p) \/ k < 0
    THEN 0
    ELSE Maximo(0, Minimo(ESCALA, TabelaNegBin(r, p)[k + 1]))

\* converter_lambda_para_negbin(lambda_, r)[1]
ConverterLambdaParaNegbin(lambda_, r) ==
    IF FracLe(lambda_, FracInt(0)) THEN Frac(999, 1000)
    ELSE Limitar(Frac(1, 1000), Frac(999, 1000), FracDiv(r, FracAdd(r, lambda_)))

RECURSIVE ProbAcum(_, _, _, _)
\* prob_acum after the loop "for i in range(k_max + 1)"
ProbAcum(k_max, lambda_, r, usar_negbin) ==
    IF k_max < 0 THEN 0
    ELSE ProbAcum(k_max - 1, lambda_, r, usar_negbin)
         + (IF usar_negbin /\ FracLt(FracInt(0), r)
            THEN NegativeBinomialPmf(k_max, r, ConverterLambdaParaNegbin(lambda_, r))
            ELSE PoissonPmf(k_max, lambda_))

\* calcular_cdf(k_max, lambda_, r, usar_negbin)
CalcularCdf(k_max, lambda_, r, usar_negbin) ==
    Minimo(ESCALA, ProbAcum(k_max, lambda_, r, usar_negbin))

\* the fallback reading the first scanned k instead of the last
EncontrarPercentilPrimeiro(cdf_values, p_alvo) ==
    IF \E k \in DOMAIN cdf_values : cdf_values[k] >= p_alvo
    THEN CHOOSE k \in DOMAIN cdf_values :
            /\ cdf_values[k] >= p_alvo
            /\ \A j \in DOMAIN cdf_values : j < k => cdf_values[j] < p_alvo
    ELSE 0

\* encontrar_percentil(p_alvo) on a list that is not empty: the first k whose
\* cdf reaches p_alvo, else cdf_values[-1][0]
EncontrarPercentil(cdf_values, p_alvo) ==
    IF \E k \in DOMAIN cdf_values : cdf_values[k] >= p_alvo
    THEN CHOOSE k \in DOMAIN cdf_values :
            /\ cdf_values[k] >= p_alvo
            /\ \A j \in DOMAIN cdf_values : j < k => cdf_values[j] < p_alvo
    ELSE CHOOSE k \in DOMAIN cdf_values : \A j \in DOMAIN cdf_values : j <= k

AMPLITUDE_ALTA == 6

\* calcular_percentis(lambda_, r, usar_negbin); with max_k < 0 the list is empty
\* and cdf_values[-1] raises IndexError
CalcularPercentis(lambda_, r, usar_negbin) ==
    LET max_k == Truncar(FracMul(lambda_, FracInt(3))) + 10
        cdf_values == [k \in 0..max_k |-> CalcularCdf(k, lambda_, r, usar_negbin)]
        p10 == EncontrarPercentil(cdf_values, ESCALA \div 10)
        p90 == EncontrarPercentil(cdf_values, (9 * ESCALA) \div 10)
    IN IF max_k < 0 THEN [erro |-> "IndexError"]
       ELSE [p10 |-> p10,
             p25 |-> EncontrarPercentil(cdf_values, ESCALA \div 4),
             p50 |-> EncontrarPercentil(cdf_values, ESCALA \div 2),
             p75 |-> EncontrarPercentil(cdf_values, (3 * ESCALA) \div 4),
             p90 |-> p90,
             variancia_alta |-> (p90 - p10) > AMPLITUDE_ALTA]

\* the arguments calcular_percentis is called with: the distributions of the
\* matches analysed, Poisson by choice and by r = 0, a lambda of 0, a
\* dispersion so large that the scan ends below the targets, and a negative
\* lambda below the scan bound
Distribuicoes ==
    { [lambda_ |-> Frac(26951, 5000), r |-> FracInt(4), usar_negbin |-> TRUE],
      [lambda_ |-> FracInt(10), r |-> Frac(153, 80), usar_negbin |-> TRUE],
      [lambda_ |-> FracInt(2), r |-> FracInt(4), usar_negbin |-> TRUE],
      [lambda_ |-> FracInt(2), r |-> FracInt(14000), usar_negbin |-> TRUE],
      [lambda_ |-> FracInt(2), r |-> FracInt(0), usar_negbin |-> TRUE],
      [lambda_ |-> FracInt(5), r |-> FracInt(3), usar_negbin |-> FALSE],
      [lambda_ |-> FracInt(0), r |-> FracInt(3), usar_negbin |-> FALSE],
      [lambda_ |-> FracInt(0 - 4), r |-> FracInt(3), usar_negbin |-> FALSE] }

\* calcular_percentis of each distribution, computed once
TabelaPercentis ==
    {<<d, CalcularPercentis(d.lambda_, d.r, d.usar_negbin)>> : d \in Distribuicoes}
PercentisDe(d) == (CHOOSE t \in TabelaPercentis : t[1] = d)[2]

\* intervalo = calcular_percentis(lambda_, r, usar_negbin)
CalcularPercentisDe(d) ==
    LET iv == PercentisDe(d)
    IN /\ intervalo' = IF "erro" \in DOMAIN iv THEN intervalo ELSE iv
       /\ erro' = IF "erro" \in DOMAIN iv THEN iv.erro ELSE ""
       /\ op' = "calcular_percentis"
       /\ UNCHANGED <<partida, calculo, probabilidades>>
       /\ UNCHANGED <<calVars, bancoVars, filtroVars, regraVars, concVars, retryVars>>

(***************************************************************************)
(* The market probabilities (calcular_probabilidades_mercados) and the     *)
(* analysis of a match (analisar_partida).                                 *)
(***************************************************************************)
\* the list "mercados" of calcular_probabilidades_mercados
MercadosPrevisao ==
    << [mercado |-> "Over 2.5 Cartoes", tipo |-> "over", linha |-> Frac(5, 2)],
       [mercado |-> "Over 3.5 Cartoes", tipo |-> "over", linha |-> Frac(7, 2)],
       [mercado |-> "Over 4.5 Cartoes", tipo |-> "over", linha |-> Frac(9, 2)],
       [mercado |-> "Over 5.5 Cartoes", tipo |-> "over", linha |-> Frac(11, 2)],
       [mercado |-> "Under 3.5 Cartoes", tipo |-> "under", linha |-> Frac(7, 2)],
       [mercado |-> "Under 4.5 Cartoes", tipo |-> "under", linha |-> Frac(9, 2)],
       [mercado |-> "Under 5.5 Cartoes", tipo |-> "under", linha |-> Frac(11, 2)] >>

\* THRESHOLDS_DESTAQUE.get(mercado, 55)
ThresholdDestaque(m) ==
    CASE m = "Over 4.5 Cartoes" -> 58
      [] m = "Over 5.5 Cartoes" -> 60
      [] OTHER -> 55

\* the line from which the blocks apply, and the score below which quality blocks
LINHA_ALTA == Frac(11, 2)
QUALIDADE_MINIMA == 60

\* int(p_raw): calibrar reads p_raw only through int(p_raw / 5) * 5
Piso(p) == p[1] \div p[2]

\* gerenciador.calibrar(mercado, p_raw) for a manager whose calibrator of
\* market cal.mercado has the map cal.mapa and whose other calibrators have
\* no observations; the value returned or the exception raised
CalibrarMercado(cal, m, p_raw) ==
    IF cal = Nenhum \/ m # cal.mercado \/ cal.mapa.none
    THEN [valor |-> p_raw, erro |-> ""]
    ELSE LET r == CalibrarRet(cal.mapa, Piso(p_raw))
         IN [valor |-> r.valor,
             erro |-> IF r.origem \in Excecoes THEN r.origem ELSE ""]

\* the matches analysed: the worked example, and baselines of 12 and 1.5 with
\* no referee and no team average, in a league and in a cup with a strict
\* referee, with a data quality of 20 and of 100
PartidaExemplo ==
    [media_liga |-> Frac(27, 5), media_amarelos_5j |-> Frac(31, 5),
     media_amarelos_10j |-> FracInt(5), amarelos_mandante |-> Frac(5, 2),
     amarelos_visitante |-> FracInt(2), n_jogos_disponiveis |-> 10,
     qualidade |-> [score_total |-> 70, completude_arbitro |-> 100,
                    completude_times |-> 100],
     liga |-> "Premier League", competicao |-> "Premier League",
     perfil |-> "Medio"]

PartidaSemMedias(b, score, l, pf) ==
    [media_liga |-> b, media_amarelos_5j |-> FracInt(0),
     media_amarelos_10j |-> FracInt(0), amarelos_mandante |-> FracInt(0),
     amarelos_visitante |-> FracInt(0), n_jogos_disponiveis |-> 2,
     qualidade |-> [score_total |-> score, completude_arbitro |-> 0,
                    completude_times |-> 100],
     liga |-> l, competicao |-> l, perfil |-> pf]

PartidasPrevisao ==
    {PartidaExemplo}
    \cup {PartidaSemMedias(FracInt(12), s, "Copa do Brasil", "Rigoroso") : s \in {20, 100}}
    \cup {PartidaSemMedias(Frac(3, 2), s, "Premier League", "Medio") : s \in {20, 100}}

\* p_raw of one market: (1 - cdf) * 100 or cdf * 100
PRaw(mk, lambda_shrunk, dispersao_r) ==
    LET k_max == Truncar(mk.linha)
        cdf == CalcularCdf(k_max, lambda_shrunk, dispersao_r, TRUE)
    IN IF mk.tipo = "over" THEN Frac((ESCALA - cdf) * 100, ESCALA)
       ELSE Frac(cdf * 100, ESCALA)

\* calcular_lambda of each match analysed and p_raw of each market for the
\* lambdas and dispersions they give, computed once
TabelaCalculos == {<<pt, CalcularLambda(pt)>> : pt \in PartidasPrevisao}
CalculoDe(pt) == (CHOOSE t \in TabelaCalculos : t[1] = pt)[2]
TabelaPRaw ==
    {<<mk.mercado, t[2].lambda_shrunk, t[2].dispersao_r,
       PRaw(mk, t[2].lambda_shrunk, t[2].dispersao_r)>> :
        mk \in Range(MercadosPrevisao), t \in TabelaCalculos}
PRawDe(mk, lambda_shrunk, dispersao_r) ==
    (CHOOSE t \in TabelaPRaw :
        t[1] = mk.mercado /\ t[2] = lambda_shrunk /\ t[3] = dispersao_r)[4]

\* one iteration of the loop of calcular_probabilidades_mercados
ProbabilidadeMercado(mk, lambda_shrunk, dispersao_r, qualidade, iv, cal) ==
    LET p_raw == PRawDe(mk, lambda_shrunk, dispersao_r)
        c == CalibrarMercado(cal, mk.mercado, p_raw)
        threshold == ThresholdDestaque(mk.mercado)
        alta == FracLe(LINHA_ALTA, mk.linha)
        bloqueio_variancia == alta /\ iv.variancia_alta
        bloqueio_qualidade == alta /\ qualidade.score_total < QUALIDADE_MINIMA
    IN [mercado |-> mk.mercado, tipo |-> mk.tipo, linha |-> mk.linha,
        p_raw |-> p_raw, p_calibrado |-> c.valor, erro |-> c.erro,
        threshold_destaque |-> threshold,
        eh_destaque |-> /\ FracLe(FracInt(threshold), c.valor)
                        /\ ~bloqueio_variancia
                        /\ ~bloqueio_qualidade,
        bloqueio_variancia |-> bloqueio_variancia,
        bloqueio_qualidade |-> bloqueio_qualidade]

\* calcular_probabilidades_mercados(lambda_shrunk, dispersao_r, qualidade,
\* intervalo, gerenciador); an entry with erro # "" is where calibrar raised
CalcularProbabilidadesMercados(lambda_shrunk, dispersao_r, qualidade, iv, cal) ==
    [i \in DOMAIN MercadosPrevisao |->
        ProbabilidadeMercado(MercadosPrevisao[i], lambda_shrunk, dispersao_r,
                             qualidade, iv, cal)]

\* the validation runs that precede the forecasts: half a training set or a
\* whole one, in one bin or one observation per bin
LotesPrevisao ==
    {Lote(52, passo, n, y) : passo \in {0, LARGURA_BIN},
                             n \in TamanhosLote \ {1}, y \in Resultados}

\* analisar_partida(pt, gerenciador); gerenciador is the manager of the
\* calibrator or None.  calibrar trains the calibrator of each market first
\* when it is not trained; an IndexError of calibrar ends the analysis with
\* no ResultadoAnalise.
AnalisarPartida(pt, comGerenciador) ==
    LET c == CalculoDe(pt)
        iv == PercentisDe([lambda_ |-> c.lambda_shrunk, r |-> c.dispersao_r,
                           usar_negbin |-> TRUE])
        m == IF treinado THEN mapa ELSE TreinarMapa(pontos)
        cal == IF comGerenciador THEN [mercado |-> mercado, mapa |-> m] ELSE Nenhum
        probs == CalcularProbabilidadesMercados(c.lambda_shrunk, c.dispersao_r,
                                                c.qualidade_dados, iv, cal)
        falhas == {i \in DOMAIN probs : probs[i].erro # ""}
    IN /\ mapa' = IF comGerenciador THEN m ELSE mapa
       /\ treinado' = IF comGerenciador THEN TRUE ELSE treinado
       /\ op' = "analisar_partida"
       /\ ret' = SemRetorno
       /\ IF falhas = {}
          THEN /\ partida' = pt
               /\ calculo' = c
               /\ intervalo' = iv
               /\ probabilidades' = probs
               /\ erro' = ""
          ELSE /\ erro' = probs[CHOOSE i \in falhas : TRUE].erro
               /\ UNCHANGED analiseVars
       /\ UNCHANGED <<mercado, pontos, arquivo, ingestoes, adicoes>>
       /\ UNCHANGED <<bancoVars, filtroVars, regraVars, concVars, retryVars>>

(***************************************************************************)
(* verificar_regras: the stored rules a match activates.                   *)
(***************************************************************************)
MaxRegrasBanco == 2

\* the bucket verificar_regras computes from p_calibrado
FaixaProb(p) ==
    IF FracLt(p, FracInt(55)) THEN "<55"
    ELSE IF FracLt(p, FracInt(60)) THEN "55-60"
    ELSE IF FracLt(p, FracInt(65)) THEN "60-65"
    ELSE IF FracLt(p, FracInt(70)) THEN "65-70"
    ELSE IF FracLt(p, FracInt(75)) THEN "70-75"
    ELSE IF FracLt(p, FracInt(80)) THEN "75-80"
    ELSE "80+"

\* valor_real: faixa_prob, or getattr(partida, fator, None)
ValorReal(pt, fator, faixa_prob) ==
    IF fator = "faixa_prob" THEN faixa_prob
    ELSE IF fator \in DOMAIN pt THEN pt[fator] ELSE "None"

\* one condition is enough
AlgumaOk(regra, pt, faixa_prob) ==
    \E f \in DOMAIN regra.condicoes :
        ValorReal(pt, f, faixa_prob) = regra.condicoes[f]

\* todas_ok after the loop over regra.condicoes.items()
TodasOk(regra, pt, faixa_prob) ==
    \A f \in DOMAIN regra.condicoes :
        ValorReal(pt, f, faixa_prob) = regra.condicoes[f]

RECURSIVE OrdenarAtivadas(_)
\* regras_ativadas.sort(key=lambda r: -r.taxa_acerto): a stable sort
OrdenarAtivadas(q) ==
    IF q = <<>> THEN <<>>
    ELSE LET antes == OrdenarAtivadas(SubSeq(q, 1, Len(q) - 1))
             x == q[Len(q)]
             n == Cardinality({i \in 1..Len(antes) :
                                 FracLe(x.taxa_acerto, antes[i].taxa_acerto)})
         IN SubSeq(antes, 1, n) \o <<x>> \o SubSeq(antes, n + 1, Len(antes))

\* MotorAprendizado.verificar_regras(partida, mercado, p_calibrado) over the
\* stored rules rs
VerificarRegrasDe(rs, pt, m, p_calibrado) ==
    OrdenarAtivadas(
        SelectSeq(rs, LAMBDA regra :
            regra.mercado = m /\ TodasOk(regra, pt, FaixaProb(p_calibrado))))

\* the rules a store may hold: mined ones, of two markets, and rules with a
\* faixa_prob condition, with a factor the match was built without, and with
\* the value "Desconhecido"
RegrasBanco ==
    { Regra(1, "Over 3.5 Cartoes", [faixa_lambda |-> "Alto"], 20, 16, FracInt(80)),
      Regra(2, "Over 3.5 Cartoes",
            [faixa_lambda |-> "Alto", perfil_arbitro |-> "Rigoroso"], 10, 9, FracInt(90)),
      Regra(3, "Over 4.5 Cartoes", [faixa_lambda |-> "Alto"], 20, 17, FracInt(85)),
      Regra(4, "Over 3.5 Cartoes", [faixa_prob |-> "60-65"], 12, 9, FracInt(75)),
      Regra(5, "Over 3.5 Cartoes",
            [perfil_arbitro |-> "Permissivo", faixa_prob |-> "80+"], 8, 8, FracInt(100)),
      Regra(6, "Over 3.5 Cartoes", [tipo_liga |-> "Copa"], 8, 7, Frac(175, 2)),
      Regra(7, "Over 3.5 Cartoes", [tendencia_recente |-> "Desconhecido"], 9, 9,
            FracInt(100)) }

\* the lists of up to MaxRegrasBanco different stored rules
ListasRegrasBanco ==
    UNION {{q \in [1..n -> RegrasBanco] :
              \A i, j \in 1..n : i # j => q[i] # q[j]} : n \in 0..MaxRegrasBanco}

PartidasConsulta == {PartidaRigoroso, PartidaPermissivo, PartidaSoLambda}
MercadosConsulta == {"Over 3.5 Cartoes", "Over 4.5 Cartoes"}
PCalibrados == {Frac(549, 10), FracInt(62), FracInt(65), FracInt(80)}

SemConsulta ==
    /\ consulta = Nenhum
    /\ ativadas = <<>>

\* ativadas = motor.verificar_regras(pt, m, p_calibrado)
VerificarRegras(pt, m, p_calibrado) ==
    /\ consulta' = [partida |-> pt, mercado |-> m, p_calibrado |-> p_calibrado]
    /\ ativadas' = VerificarRegrasDe(regras, pt, m, p_calibrado)
    /\ op' = "verificar_regras"
    /\ erro' = ""
    /\ UNCHANGED <<calVars, bancoVars, filtroVars, analiseVars, concVars, retryVars>>

(***************************************************************************)
(* Concurrent validation runs.                                             *)
(***************************************************************************)
\* the validation runs (processes) that share one calibration folder
Runs == {1, 2}

\* no validation run is under way
ConcParada ==
    /\ pc = Nenhum
    /\ lido = Nenhum

\* two validation runs are about to call alimentar_calibradores
ConcInicio ==
    /\ pc = [i \in Runs |-> "inicio"]
    /\ lido = [i \in Runs |->
                 [dados |-> SemPontos, lote |-> SemRegistros,
                  arquivo |-> ArquivoAusente,
                  registros |-> SemRegistros, regras |-> <<>>]]

\* the validations of the market and the forecasts a concurrent run brings
DadosConc ==
    {Lote(52, 0, MIN_PONTOS_CALIBRACAO \div 2, 1),
     Lote(57, 0, MIN_PONTOS_CALIBRACAO \div 2, 0),
     Lote(52, LARGURA_BIN, MIN_PONTOS_CALIBRACAO \div 2, 1)}
LotesConc ==
    {LoteBanco(1, MIN_AMOSTRAS_REGRA + 1, 2), LoteBanco(4, MIN_AMOSTRAS_REGRA + 1, 2),
     LoteBanco(2, MIN_AMOSTRAS_REGRA, 0)}

\* alimentar_calibradores of run i, "Carrega dados existentes ou cria novo":
\* pickle.load of the market's file into dados_existentes
CarregarExistentes(i, dados) ==
    /\ pc[i] = "inicio"
    /\ lido' = [lido EXCEPT ![i].dados = dados, ![i].arquivo = arquivo]
    /\ pc' = [pc EXCEPT ![i] = "calibrador_lido"]
    /\ op' = "carregar_existentes"
    /\ erro' = ""
    /\ UNCHANGED <<calVars, bancoVars, filtroVars, analiseVars, regraVars, retryVars>>

\* alimentar_calibradores of run i, "Adiciona novos pontos" to "Salva": the
\* new observations join what the run loaded, the map is rebuilt, and
\* pickle.dump overwrites the file
SalvarExistentes(i) ==
    /\ pc[i] = "calibrador_lido"
    /\ arquivo' = ArquivoAlimentado(lido[i].arquivo, mercado, lido[i].dados)
    /\ pc' = [pc EXCEPT ![i] = "calibrador_salvo"]
    /\ op' = "salvar_existentes"
    /\ erro' = ""
    /\ UNCHANGED <<mercado, pontos, treinado, mapa, ingestoes, adicoes, ret>>
    /\ UNCHANGED <<lido, bancoVars, filtroVars, analiseVars, regraVars, retryVars>>

\* alimentar_banco_aprendizado of run i: obter_banco_aprendizado loads
\* aprendizado.pkl into the BancoAprendizado of the process
ObterBanco(i, lote) ==
    LET b == BancoCarregado(arquivoBanco)
    IN /\ pc[i] = "calibrador_salvo"
       /\ lido' = [lido EXCEPT ![i].lote = lote,
                               ![i].registros = b.registros,
                               ![i].regras = b.regras]
       /\ pc' = [pc EXCEPT ![i] = "banco_lido"]
       /\ op' = "obter_banco"
       /\ erro' = ""
       /\ UNCHANGED <<calVars, bancoVars, filtroVars, analiseVars, regraVars, retryVars>>

\* alimentar_banco_aprendizado of run i: the adicionar_registro loop, then
\* banco.salvar() overwrites aprendizado.pkl
SalvarBanco(i) ==
    LET reg2 == SomaPontos(lido[i].registros, lido[i].lote)
    IN /\ pc[i] = "banco_lido"
       /\ lido' = [lido EXCEPT ![i].registros = reg2]
       /\ arquivoBanco' = ArquivoBancoOk(reg2, lido[i].regras)
       /\ pc' = [pc EXCEPT ![i] = "banco_salvo"]
       /\ op' = "salvar_banco"
       /\ erro' = ""
       /\ UNCHANGED <<registros, regras, calVars, filtroVars, analiseVars, regraVars, retryVars>>

\* alimentar_banco_aprendizado of run i, "Retreina regras se tiver dados
\* suficientes": retreinar_regras on the store of the process, which saves
\* the file again
RetreinarBanco(i) ==
    LET rs == RegrasRetreinadas(lido[i].registros, lido[i].regras)
        retreina == TotalRegistros(lido[i].registros) >= MIN_REGISTROS_RETREINO
    IN /\ pc[i] = "banco_salvo"
       /\ lido' = [lido EXCEPT ![i].regras = IF retreina THEN rs ELSE @]
       /\ arquivoBanco' = IF retreina THEN ArquivoBancoOk(lido[i].registros, rs)
                          ELSE arquivoBanco
       /\ pc' = [pc EXCEPT ![i] = "fim"]
       /\ op' = "retreinar_banco"
       /\ erro' = ""
       /\ UNCHANGED <<registros, regras, calVars, filtroVars, analiseVars, regraVars, retryVars>>

(***************************************************************************)
(* retry_on_failure (src/sistema_unificado_v1_5.py): the wrapper around a  *)
(* function that may fail.  rt is the frame of one call of the wrapper:    *)
(* max_attempts, attempt (the loop variable), last_exception, the outcomes *)
(* of the calls of the wrapped function so far (historico), the number of  *)
(* time.sleep calls (esperas), where the wrapper stands (estado) and what  *)
(* it returned or raised.                                                  *)
(***************************************************************************)
\* most attempts a wrapper is given
MaxTentativas == 4

\* what a call of the wrapped function can do: return a value, raise an
\* exception listed in "exceptions", or raise one that is not listed
ValoresRetorno == {"json", "vazio"}
ExcecoesListadas == {"HTTP 500", "Timeout"}
ExcecoesNaoListadas == {"KeyboardInterrupt"}
Desfechos == ValoresRetorno \cup ExcecoesListadas \cup ExcecoesNaoListadas

RetryParado == rt = Nenhum

\* the wait after every failed attempt, the last one included
EsperaSempre(attempt, max_attempts) == TRUE

\* if attempt < max_attempts: time.sleep(delay)
EsperaEntreTentativas(attempt, max_attempts) == attempt < max_attempts

\* the end of the wrapper once the for loop is exhausted:
\* "if last_exception: raise last_exception", else the implicit return None
FimDoLaco(f) ==
    IF f.last_exception # "None"
    THEN [f EXCEPT !.estado = "levantou", !.excecao = f.last_exception]
    ELSE [f EXCEPT !.estado = "retornou", !.retorno = "None"]

\* the top of "for attempt in range(1, max_attempts + 1)" with the loop
\* variable at a
TopoDoLaco(f, a) ==
    IF a <= f.max_attempts
    THEN [f EXCEPT !.attempt = a, !.estado = "tentando"]
    ELSE FimDoLaco(f)

\* wrapper(*args, **kwargs) is called: last_exception = None, the loop starts
ChamarWrapper(n) ==
    /\ rt = Nenhum
    /\ rt' = TopoDoLaco([max_attempts |-> n, attempt |-> 0, last_exception |-> "None",
                         historico |-> <<>>, esperas |-> 0, estado |-> "inicio",
                         retorno |-> "None", excecao |-> "None"], 1)
    /\ op' = "wrapper"
    /\ erro' = ""
    /\ UNCHANGED <<calVars, bancoVars, filtroVars, analiseVars, regraVars, concVars>>

\* one pass of the try statement: func(*args, **kwargs) ends with desfecho d
Tentar(d) ==
    LET f == [rt EXCEPT !.historico = Append(@, d)]
    IN /\ rt # Nenhum
       /\ rt.estado = "tentando"
       /\ rt' = IF d \in ValoresRetorno
                THEN [f EXCEPT !.estado = "retornou", !.retorno = d]
                ELSE IF d \in ExcecoesNaoListadas
                THEN [f EXCEPT !.estado = "levantou", !.excecao = d]
                ELSE LET g == [f EXCEPT !.last_exception = d]
                     IN IF EsperaEntreTentativas(g.attempt, g.max_attempts)
                        THEN [g EXCEPT !.estado = "esperando"]
                        ELSE TopoDoLaco(g, g.attempt + 1)
       /\ op' = "func"
       /\ erro' = IF d \in ValoresRetorno THEN "" ELSE d
       /\ UNCHANGED <<calVars, bancoVars, filtroVars, analiseVars, regraVars, concVars>>

\* time.sleep(delay) returns and the loop goes to its next pass
Esperar ==
    /\ rt # Nenhum
    /\ rt.estado = "esperando"
    /\ rt' = TopoDoLaco([rt EXCEPT !.esperas = @ + 1], rt.attempt + 1)
    /\ op' = "sleep"
    /\ erro' = ""
    /\ UNCHANGED <<calVars, bancoVars, filtroVars, analiseVars, regraVars, concVars>>

(***************************************************************************)
(* Specifications.                                                         *)
(***************************************************************************)
\* a calibrator in memory, no calibration folder
InitCal ==
    /\ CalibradorNovo("Over 3.5 Cartoes", ArquivoAusente)
    /\ BancoNovo(ArquivoBancoAusente)
    /\ FiltroParado
    /\ AnaliseParada
    /\ SemConsulta
    /\ ConcParada
    /\ RetryParado

NextCal ==
    \/ \E x \in PRaws, y \in Resultados : AdicionarPonto(x, y)
    \/ Treinar
    \/ \E p \in PConsultas : Calibrar(p)

SpecCal == InitCal /\ [][NextCal]_vars

\* a calibrator and the file of its market, which the validation ingestion
\* also writes
InitArq ==
    /\ \E m \in Mercados, arq \in {ArquivoAusente, ArquivoCorrompido} :
          CalibradorNovo(m, arq)
    /\ BancoNovo(ArquivoBancoAusente)
    /\ FiltroParado
    /\ AnaliseParada
    /\ SemConsulta
    /\ ConcParada
    /\ RetryParado

NextArq ==
    \/ \E dados \in LotesDados : AlimentarCalibradores(dados, SemRegistros)
    \/ CarregarTodos
    \/ SalvarTodos
    \/ \E y \in Resultados : adicoes < MaxAdicoes /\ AdicionarPonto(62, y)
    \/ Treinar
    \/ \E p \in PConsultas : Calibrar(p)

SpecArq == InitArq /\ [][NextArq]_vars

\* the learning store fed by the validation ingestion
InitBanco ==
    /\ CalibradorNovo("Over 3.5 Cartoes", ArquivoAusente)
    /\ \E arq \in {ArquivoBancoAusente, ArquivoBancoCorrompido} : BancoNovo(arq)
    /\ FiltroParado
    /\ AnaliseParada
    /\ SemConsulta
    /\ ConcParada
    /\ RetryParado

NextBanco ==
    \/ \E lote \in LotesBanco : AlimentarCalibradores(SemPontos, lote)
    \/ RetreinarRegras

SpecBanco == InitBanco /\ [][NextBanco]_vars

\* processes that start beside files left by earlier ones: the store and
\* the calibrators are loaded, used and saved
InitCarga ==
    /\ \E arq \in {ArquivoAusente, ArquivoCorrompido} :
          CalibradorNovo("Over 3.5 Cartoes", arq)
    /\ \E arq \in {ArquivoBancoAusente, ArquivoBancoCorrompido} : BancoNovo(arq)
    /\ FiltroParado
    /\ AnaliseParada
    /\ SemConsulta
    /\ ConcParada
    /\ RetryParado

NextCarga ==
    \/ CarregarBanco
    \/ CarregarTodos
    \/ \E y \in Resultados : adicoes < MaxAdicoes /\ AdicionarPonto(62, y)
    \/ SalvarTodos
    \/ \E lote \in {SemRegistros, LoteBanco(1, MIN_AMOSTRAS_REGRA, 2)} :
          AlimentarCalibradores(SemPontos, lote)
    \/ RetreinarRegras

SpecCarga == InitCarga /\ [][NextCarga]_vars

\* the redundancy filter applied to each candidate list
InitFiltro ==
    /\ CalibradorNovo("Over 3.5 Cartoes", ArquivoAusente)
    /\ BancoNovo(ArquivoBancoAusente)
    /\ candidatas \in ListasCandidatas
    /\ filtradas = <<>>
    /\ AnaliseParada
    /\ SemConsulta
    /\ ConcParada
    /\ RetryParado

NextFiltro == Filtrar

SpecFiltro == InitFiltro /\ [][NextFiltro]_vars

\* the lambda estimator applied to each match
InitLambda ==
    /\ CalibradorNovo("Over 3.5 Cartoes", ArquivoAusente)
    /\ BancoNovo(ArquivoBancoAusente)
    /\ FiltroParado
    /\ partida \in PartidasLambda
    /\ calculo = Nenhum
    /\ intervalo = Nenhum
    /\ probabilidades = <<>>
    /\ SemConsulta
    /\ ConcParada
    /\ RetryParado

NextLambda == CalcularLambdaPartida

SpecLambda == InitLambda /\ [][NextLambda]_vars

\* forecasts made beside the calibration folder the validation ingestion
\* writes, and the percentiles of each distribution
InitPrevisao ==
    /\ \E m \in Mercados : CalibradorNovo(m, ArquivoAusente)
    /\ BancoNovo(ArquivoBancoAusente)
    /\ FiltroParado
    /\ AnaliseParada
    /\ SemConsulta
    /\ ConcParada
    /\ RetryParado

NextPrevisao ==
    \/ \E dados \in LotesPrevisao : AlimentarCalibradores(dados, SemRegistros)
    \/ CarregarTodos
    \/ \E pt \in PartidasPrevisao, g \in BOOLEAN : AnalisarPartida(pt, g)

SpecPrevisao == InitPrevisao /\ [][NextPrevisao]_vars

\* calcular_percentis called directly and through analisar_partida
NextPercentis ==
    \/ \E pt \in PartidasPrevisao, g \in BOOLEAN : AnalisarPartida(pt, g)
    \/ \E d \in Distribuicoes : CalcularPercentisDe(d)

SpecPercentis == InitPrevisao /\ [][NextPercentis]_vars

\* verificar_regras applied to each store of rules
InitVerificar ==
    /\ CalibradorNovo("Over 3.5 Cartoes", ArquivoAusente)
    /\ registros = SemRegistros
    /\ regras \in ListasRegrasBanco
    /\ arquivoBanco = ArquivoBancoAusente
    /\ FiltroParado
    /\ AnaliseParada
    /\ SemConsulta
    /\ ConcParada
    /\ RetryParado

NextVerificar ==
    \E pt \in PartidasConsulta, m \in MercadosConsulta, p \in PCalibrados :
        VerificarRegras(pt, m, p)

SpecVerificar == InitVerificar /\ [][NextVerificar]_vars

\* two validation runs over one calibration folder that starts empty
InitConc ==
    /\ \E m \in Mercados : CalibradorNovo(m, ArquivoAusente)
    /\ BancoNovo(ArquivoBancoAusente)
    /\ FiltroParado
    /\ AnaliseParada
    /\ SemConsulta
    /\ ConcInicio
    /\ RetryParado

NextConc ==
    \/ \E i \in Runs, dados \in DadosConc : CarregarExistentes(i, dados)
    \/ \E i \in Runs : SalvarExistentes(i)
    \/ \E i \in Runs, lote \in LotesConc : ObterBanco(i, lote)
    \/ \E i \in Runs : SalvarBanco(i)
    \/ \E i \in Runs : RetreinarBanco(i)

\* a learning store fed with forecasts of three markets, one of them
\* excluded from mining
LotesMercados ==
    {LoteBanco(i, a, e) : i \in {1, 4, 5},
                          a \in {MIN_AMOSTRAS_REGRA, MIN_AMOSTRAS_REGRA + 1},
                          e \in ErrosLote}

InitMercados ==
    /\ CalibradorNovo("Over 3.5 Cartoes", ArquivoAusente)
    /\ BancoNovo(ArquivoBancoAusente)
    /\ FiltroParado
    /\ AnaliseParada
    /\ SemConsulta
    /\ ConcParada
    /\ RetryParado

NextMercados ==
    \/ \E lote \in LotesMercados : AlimentarCalibradores(SemPontos, lote)
    \/ RetreinarRegras

SpecMercados == InitMercados /\ [][NextMercados]_vars

SpecConc == InitConc /\ [][NextConc]_vars

\* one call of a wrapper built with max_attempts from 0 to MaxTentativas
InitRetry ==
    /\ CalibradorNovo("Over 3.5 Cartoes", ArquivoAusente)
    /\ BancoNovo(ArquivoBancoAusente)
    /\ FiltroParado
    /\ AnaliseParada
    /\ SemConsulta
    /\ ConcParada
    /\ RetryParado

NextRetry ==
    \/ \E n \in 0..MaxTentativas : ChamarWrapper(n)
    \/ \E d \in Desfechos : Tentar(d)
    \/ Esperar

SpecRetry == InitRetry /\ [][NextRetry]_vars

\* a calibrator in memory that is saved to the file of its market and loaded
\* back; the observations fall in one bin
InitIdaVolta ==
    /\ CalibradorNovo("Over 3.5 Cartoes", ArquivoAusente)
    /\ BancoNovo(ArquivoBancoAusente)
    /\ FiltroParado
    /\ AnaliseParada
    /\ SemConsulta
    /\ ConcParada
    /\ RetryParado

NextIdaVolta ==
    \/ adicoes < MaxPontos /\ \E y \in Resultados : AdicionarPonto(52, y)
    \/ Treinar
    \/ \E p \in {52, 57} : Calibrar(p)
    \/ SalvarTodos
    \/ CarregarTodos

SpecIdaVolta == InitIdaVolta /\ [][NextIdaVolta]_vars

(***************************************************************************)
(* Properties of the calibrator in memory (SpecCal).                       *)
(***************************************************************************)
\* the observations of pts whose raw probability lies in the bin [b, b + 5)
NoIntervalo(pts, b) ==
    SumOver(pts, {o \in DOMAIN pts : b <= o[1] /\ o[1] < b + LARGURA_BIN})

\* C1: after treinar() on a calibrator holding at least 10 observations the
\* map is non-decreasing over ascending bins: b1 < b2 => map[b1] <= map[b2].
C1_MapaNaoDecrescente ==
    (op = "treinar" /\ NumPontos(pontos) >= 10) =>
        /\ ~mapa.none
        /\ \A b1, b2 \in DOMAIN mapa.bins :
              b1 < b2 => FracLe(mapa.bins[b1], mapa.bins[b2])

\* C2: while a fresh calibrator holds fewer than 10 observations, calibrar(p)
\* returns p unchanged (and raises nothing), whatever calls came before.
C2_IdentidadeAbaixoDoMinimo ==
    (op = "calibrar" /\ NumPontos(pontos) < 10) =>
        /\ erro = ""
        /\ ret.valor = <<ret.p, 1>>

\* C2 witness: calibrar(57) answered 57 on a calibrator of 9 observations
\* that had been trained explicitly before its last observation arrived.
C2_Witness ==
    /\ op = "calibrar"
    /\ NumPontos(pontos) = 9
    /\ ret.p = 57
    /\ ret.valor = <<57, 1>>
    /\ Vezes(pontos, <<52, 1>>) = 5
    /\ Vezes(pontos, <<72, 0>>) = 4

\* C10 (as claimed): calibrar(p) returns a value of the map only when every
\* bin that supplied the value was built from at least 10 observations.
C10_BinComDezObservacoes ==
    (op = "calibrar" /\ ret.origem \notin {"raw", "nenhum"}) =>
        \A b \in ret.chaves : NoIntervalo(pontos, b) >= 10

\* C10 (amended): calibrar(p) returns a value of the map only when the
\* calibrator holds at least 10 observations in all; a bin that supplies
\* the value needs one observation only.
C10_DezObservacoesAoTodo ==
    (op = "calibrar" /\ ret.origem \notin {"raw", "nenhum"}) =>
        /\ NumPontos(pontos) >= 10
        /\ ret.chaves # {}
        /\ \A b \in ret.chaves : NoIntervalo(pontos, b) >= 1

\* C10 witness: a map value returned from a bin built from one observation.
C10_Witness ==
    /\ op = "calibrar"
    /\ ret.origem = "bin"
    /\ ret.p = 52
    /\ NoIntervalo(pontos, 50) = 1
    /\ NumPontos(pontos) = 10

(***************************************************************************)
(* Properties of the redundancy filter (SpecFiltro).                       *)
(***************************************************************************)
\* every condition of rule r is a condition of rule a
CondicoesContidas(r, a) ==
    \A f \in DOMAIN r.condicoes :
        f \in DOMAIN a.condicoes /\ a.condicoes[f] = r.condicoes[f]

\* the accepted rules come out in descending condition count
AceitasEmOrdemDecrescente ==
    \A i, j \in 1..Len(filtradas) :
        i < j => NumCondicoes(filtradas[i]) >= NumCondicoes(filtradas[j])

\* C3 (as claimed): the rules are processed in descending condition count and
\* a rule is discarded exactly when the condition set of some accepted rule
\* is a subset of the rule's own condition set.
C3_DescartaSeAceitaMaisGeral ==
    op = "filtrar" =>
        /\ AceitasEmOrdemDecrescente
        /\ \A r \in Range(candidatas) :
              r \notin Range(filtradas) <=>
                 \E a \in Range(filtradas) : a # r /\ CondicoesContidas(a, r)

\* C3 (amended): the rules are processed in descending condition count and a
\* rule is discarded exactly when its own condition set is a subset of the
\* condition set of some accepted rule.
C3_DescartaSeContidaEmAceita ==
    op = "filtrar" =>
        /\ AceitasEmOrdemDecrescente
        /\ \A r \in Range(candidatas) :
              r \notin Range(filtradas) <=>
                 \E a \in Range(filtradas) : a # r /\ CondicoesContidas(r, a)

\* C3 witness: of three candidates the general one was discarded in favour
\* of the accepted rule that contains it, and the unrelated one was kept.
C3_Witness ==
    /\ op = "filtrar"
    /\ Len(candidatas) = 3
    /\ Len(filtradas) = 2
    /\ \E r \in Range(candidatas) : \E a \in Range(filtradas) :
          /\ r \notin Range(filtradas)
          /\ NumCondicoes(r) = 1
          /\ NumCondicoes(a) = 3
          /\ CondicoesContidas(r, a)

RegraA == RegraSintetica([faixa_lambda |-> "Alto"], 20, 80)
RegraB == RegraSintetica([faixa_lambda |-> "Alto", perfil_arbitro |-> "Rigoroso"], 10, 85)

\* C5: given exactly the rules A = {f1:v1} (support 20, 80%) and
\* B = {f1:v1, f2:v2} (support 10, 85%), the filter returns exactly one of
\* them, in whichever order the two are supplied.
C5_UmaSobrevive ==
    (op = "filtrar" /\ Len(candidatas) = 2 /\ Range(candidatas) = {RegraA, RegraB}) =>
        /\ Len(filtradas) = 1
        /\ filtradas[1] \in {RegraA, RegraB}

\* C5 witness: A supplied first and B second; B alone came out.
C5_Witness ==
    /\ op = "filtrar"
    /\ candidatas = <<RegraA, RegraB>>
    /\ filtradas = <<RegraB>>

(***************************************************************************)
(* Properties of the learning store (SpecBanco, SpecCarga).                *)
(***************************************************************************)
\* retreinar_regras ran in the last step: called directly, or by the
\* ingestion over a corpus of 20 records or more
RetreinoFeito ==
    \/ op = "retreinar_regras"
    \/ op = "alimentar_calibradores" /\ TotalRegistros(registros) >= MIN_REGISTROS_RETREINO

FatoresDoModelo == Range(FATORES_ANALISE)

ValoresDoModelo ==
    {RegistrosEntrada[i].partida[f] :
        i \in DOMAIN RegistrosEntrada, f \in FatoresDoModelo \ {"faixa_prob"}}

\* the hits among the records of market m
AcertosDoMercado(reg, m) ==
    Quantos(reg, {r \in DoMercado(reg, m) : r.resultado.acertou})

\* market m is mined, every record of it carries value v for factor f, and
\* the records are 8 or more with a hit rate of 75% or more
TodosComValor(m, f, v) ==
    /\ m \notin MERCADOS_EXCLUIDOS_REGRAS
    /\ DoMercado(registros, m) # {}
    /\ \A r \in DoMercado(registros, m) : f \in DOMAIN r.partida /\ r.partida[f] = v
    /\ Quantos(registros, DoMercado(registros, m)) >= 8
    /\ 100 * AcertosDoMercado(registros, m) >= 75 * Quantos(registros, DoMercado(registros, m))

\* rule r of market m has f = v among its conditions
TemCondicao(r, m, f, v) ==
    /\ r.mercado = m
    /\ f \in DOMAIN r.condicoes
    /\ r.condicoes[f] = v

\* rule r is the 1-factor rule {f: v} of market m over all of m's records
RegraDeUmFator(r, m, f, v) ==
    /\ TemCondicao(r, m, f, v)
    /\ DOMAIN r.condicoes = {f}
    /\ r.total_amostras = Quantos(registros, DoMercado(registros, m))
    /\ r.acertos = AcertosDoMercado(registros, m)
    /\ r.taxa_acerto = Frac(100 * r.acertos, r.total_amostras)

\* C4 (as claimed): if every record of a mined market carries value A for
\* factor X and they are 8 or more with hit rate >= 75%, the list returned by
\* descobrir_regras contains the 1-factor rule {X:A} with that support and
\* hit rate.
C4_RegraDeUmFatorPresente ==
    RetreinoFeito =>
        \A m \in MercadosBanco, f \in FatoresDoModelo, v \in ValoresDoModelo :
            (TodosComValor(m, f, v) /\ v \notin {"", "Desconhecido"}) =>
                \E i \in DOMAIN regras : RegraDeUmFator(regras[i], m, f, v)

\* C4 (amended): under the same premiss, for a usable value A, the list
\* contains a rule of that market with X:A among its conditions; the
\* 1-factor rule {X:A} itself, with that support and hit rate, is in the
\* list exactly when no listed rule of two or three conditions has X:A.
C4_RegraComACondicao ==
    RetreinoFeito =>
        \A m \in MercadosBanco, f \in FatoresDoModelo, v \in ValoresDoModelo :
            (TodosComValor(m, f, v) /\ v \notin {"", "Desconhecido"}) =>
                /\ \E i \in DOMAIN regras : TemCondicao(regras[i], m, f, v)
                /\ (\E i \in DOMAIN regras : RegraDeUmFator(regras[i], m, f, v))
                     <=> ~\E i \in DOMAIN regras :
                             /\ TemCondicao(regras[i], m, f, v)
                             /\ NumCondicoes(regras[i]) > 1

\* C4 witness: ten records of one market, eight of them hits, all of a match
\* with faixa_lambda = Alto and a Rigoroso referee; the only rule mined has
\* both conditions.
C4_Witness ==
    /\ op = "retreinar_regras"
    /\ TodosComValor("Over 3.5 Cartoes", "faixa_lambda", "Alto")
    /\ TotalRegistros(registros) = 10
    /\ AcertosDoMercado(registros, "Over 3.5 Cartoes") = 8
    /\ Len(regras) = 1
    /\ DOMAIN regras[1].condicoes = {"faixa_lambda", "perfil_arbitro"}

\* C6: every stored rule has total_amostras >= 8, taxa_acerto >= 75 and
\* taxa_acerto = acertos / total_amostras x 100, after any additions and
\* retrains; and mining a market of fewer than 8 records yields no rule for
\* it, whatever its hit rate.
C6_RegrasAcimaDosMinimos ==
    /\ \A i \in DOMAIN regras :
          /\ regras[i].total_amostras >= 8
          /\ regras[i].taxa_acerto = Frac(100 * regras[i].acertos, regras[i].total_amostras)
          /\ 100 * regras[i].acertos >= 75 * regras[i].total_amostras
    /\ RetreinoFeito =>
          \A m \in MercadosBanco :
              Quantos(registros, DoMercado(registros, m)) < 8 =>
                  \A i \in DOMAIN regras : regras[i].mercado # m

\* C6 witness: a retrain over a market of 7 records, all hits, beside a
\* market whose 8 records at exactly 75% gave a rule.
C6_Witness ==
    /\ op = "retreinar_regras"
    /\ Quantos(registros, DoMercado(registros, "Over 3.5 Cartoes")) = 7
    /\ AcertosDoMercado(registros, "Over 3.5 Cartoes") = 7
    /\ Len(regras) = 1
    /\ regras[1].mercado = "Over 4.5 Cartoes"
    /\ regras[1].total_amostras = 8
    /\ regras[1].acertos = 6

\* C8: after retreinar_regras the stored rules are the result of mining the
\* whole corpus, whatever rules were stored before (so a second retrain
\* without new records stores the same rules), and the file holds that
\* corpus and those rules.
C8_RetreinoSubstitui ==
    RetreinoFeito =>
        /\ regras = DescobrirRegras(registros)
        /\ arquivoBanco = ArquivoBancoOk(registros, DescobrirRegras(registros))

\* C8 witness: a retrain over ten records stored the one rule they give, and
\* the file was written.
C8_Witness ==
    /\ op = "retreinar_regras"
    /\ Len(regras) = 1
    /\ regras[1].total_amostras = 10
    /\ regras[1].acertos = 8
    /\ TotalRegistros(registros) = 10
    /\ arquivoBanco.estado = "ok"

\* C9: loading a learning-store file that exists but does not load raises
\* nothing and leaves the store with no record and no rule; a calibrator
\* file that does not load raises nothing and leaves the market with a fresh
\* empty calibrator.
C9_CargaToleraArquivoCorrompido ==
    /\ (op = "carregar_banco" /\ arquivoBanco.estado = "corrompido") =>
          /\ erro = ""
          /\ registros = SemRegistros
          /\ regras = <<>>
    /\ (op = "carregar" /\ arquivo.estado = "corrompido") =>
          /\ erro = ""
          /\ pontos = SemPontos
          /\ mapa = MapaNone
          /\ ~treinado

\* C9 witness: both files are corrupt; the store was loaded last and came
\* up empty, beside a calibrator that holds one observation.
C9_Witness ==
    /\ op = "carregar_banco"
    /\ arquivoBanco.estado = "corrompido"
    /\ arquivo.estado = "corrompido"
    /\ NumPontos(pontos) = 1
    /\ registros = SemRegistros
    /\ regras = <<>>
    /\ erro = ""

(***************************************************************************)
(* Properties of the calibrator beside its file (SpecArq).                 *)
(***************************************************************************)
\* C7: in every state the writers can produce (adicionar_ponto, treinar,
\* salvar / carregar, alimentar_calibradores) calibrar(p) returns a number
\* and raises no exception.
C7_CalibrarNuncaLevanta ==
    op = "calibrar" => (erro = "" /\ ret.origem \notin Excecoes)

(***************************************************************************)
(* Properties of the lambda estimator (SpecLambda).                        *)
(***************************************************************************)
LambdaCalculado == op = "calcular_lambda"

DentroDosLimites(x) ==
    FracLe(FracInt(LAMBDA_MIN), x) /\ FracLe(x, FracInt(LAMBDA_MAX))

\* C11: whatever the baseline, the referee and team averages and the
\* shrinkage weight, calcular_lambda returns lambda_final_raw and
\* lambda_shrunk within [2, 10], and the weight within [0.3, 0.95].
C11_LambdaDentroDosLimites ==
    LambdaCalculado =>
        /\ DentroDosLimites(calculo.lambda_final_raw)
        /\ DentroDosLimites(calculo.lambda_shrunk)
        /\ FracLe(Frac(3, 10), calculo.peso_shrinkage)
        /\ FracLe(calculo.peso_shrinkage, Frac(19, 20))

\* a baseline of 12 with no referee and no team average: the additive sum
\* and the shrunk value are both above 10 before they are limited
C11_Witness ==
    /\ LambdaCalculado
    /\ partida.media_liga = FracInt(12)
    /\ partida.media_amarelos_5j = FracInt(0)
    /\ partida.media_amarelos_10j = FracInt(0)
    /\ partida.amarelos_mandante = FracInt(0)
    /\ calculo.lambda_final_raw = FracInt(LAMBDA_MAX)
    /\ calculo.lambda_shrunk = FracInt(LAMBDA_MAX)

\* the match of the worked example: baseline 5.4, referee 6.2 over 5 games
\* and 5.0 over 10, teams 2.5 + 2.0, and data that give the weight 0.7
PartidaDoExemplo ==
    /\ partida.media_liga = Frac(54, 10)
    /\ partida.media_amarelos_5j = Frac(62, 10)
    /\ partida.media_amarelos_10j = FracInt(5)
    /\ partida.amarelos_mandante = Frac(25, 10)
    /\ partida.amarelos_visitante = FracInt(2)
    /\ partida.qualidade.score_total = 70
    /\ partida.qualidade.completude_arbitro = 100
    /\ partida.qualidade.completude_times = 100
    /\ partida.n_jogos_disponiveis = 10

AnaliseFeita == op = "analisar_partida" /\ erro = ""

EntreZeroECem(x) == FracLe(FracInt(0), x) /\ FracLe(x, FracInt(100))

\* C12: every ProbabilidadeMercado that calcular_probabilidades_mercados
\* produces, whatever the state of the calibrators, has p_raw and
\* p_calibrado within [0, 100].
C12_ProbabilidadesEntreZeroECem ==
    \A i \in DOMAIN probabilidades :
        /\ EntreZeroECem(probabilidades[i].p_raw)
        /\ EntreZeroECem(probabilidades[i].p_calibrado)

\* a forecast whose calibrator has a map, which moved the raw probability of
\* its market
C12_Witness ==
    /\ AnaliseFeita
    /\ ~mapa.none
    /\ \E i \in DOMAIN probabilidades :
          /\ probabilidades[i].mercado = mercado
          /\ probabilidades[i].p_calibrado # probabilidades[i].p_raw

PercentisCalculados ==
    /\ op \in {"calcular_percentis", "analisar_partida"}
    /\ erro = ""

C17_SoOver55Bloqueado ==
    AnaliseFeita =>
        \A i \in DOMAIN probabilidades :
            LET pm == probabilidades[i]
            IN /\ pm.bloqueio_variancia <=>
                    (pm.mercado = "Over 5.5 Cartoes"
                     /\ intervalo.p90 - intervalo.p10 > AMPLITUDE_ALTA)
               /\ pm.mercado # "Over 5.5 Cartoes" =>
                    (~pm.bloqueio_variancia /\ ~pm.bloqueio_qualidade)

(***************************************************************************)
(* Properties of verificar_regras (SpecVerificar).                         *)
(***************************************************************************)
\* the value the match of the call has for a factor
ValorVivo(f) ==
    IF f = "faixa_prob" THEN FaixaProb(consulta.p_calibrado)
    ELSE IF f \in DOMAIN consulta.partida THEN consulta.partida[f]
    ELSE "None"

\* C14: verificar_regras(partida, mercado, p_calibrado) returns exactly the
\* stored rules of that market whose every condition equals the live value
\* (the factor of the match, or the bucket of p_calibrado for faixa_prob),
\* each once, by hit rate descending.
C14_AtivadasExatas ==
    op = "verificar_regras" =>
        /\ Range(ativadas) =
             {r \in Range(regras) :
                /\ r.mercado = consulta.mercado
                /\ \A f \in DOMAIN r.condicoes : r.condicoes[f] = ValorVivo(f)}
        /\ \A i, j \in DOMAIN ativadas :
             i < j => /\ ativadas[i] # ativadas[j]
                      /\ FracLe(ativadas[j].taxa_acerto, ativadas[i].taxa_acerto)

\* a rule with a faixa_prob condition is activated while another rule of the
\* same market is not
C14_Witness ==
    /\ op = "verificar_regras"
    /\ \E i \in DOMAIN ativadas : "faixa_prob" \in DOMAIN ativadas[i].condicoes
    /\ \E j \in DOMAIN regras :
          /\ regras[j].mercado = consulta.mercado
          /\ regras[j] \notin Range(ativadas)

(***************************************************************************)
(* Properties of the list descobrir_regras returns (SpecBanco).            *)
(***************************************************************************)
\* C15: the list descobrir_regras returns is sorted, across all markets, by
\* hit rate descending and then by sample count descending, and its ids are
\* 1..n in list order.
C15_OrdenadasComIds ==
    RetreinoFeito =>
        /\ \A i \in DOMAIN regras : regras[i].id = i
        /\ \A i, j \in DOMAIN regras :
             i < j =>
                /\ FracLe(regras[j].taxa_acerto, regras[i].taxa_acerto)
                /\ regras[i].taxa_acerto = regras[j].taxa_acerto =>
                      regras[i].total_amostras >= regras[j].total_amostras

\* rules of two markets in one list with the same hit rate: the rule of
\* Over 4.5, with more samples, is listed before the rule of Over 3.5, the
\* market whose records came first
C15_Witness ==
    /\ RetreinoFeito
    /\ 1 \in DOMAIN registros
    /\ \E i, j \in DOMAIN regras :
          /\ i < j
          /\ regras[i].mercado = "Over 4.5 Cartoes"
          /\ regras[j].mercado = "Over 3.5 Cartoes"
          /\ regras[i].taxa_acerto = regras[j].taxa_acerto
          /\ regras[i].total_amostras > regras[j].total_amostras


\* every validation run has gone through alimentar_calibradores
RunsTerminadas == pc # Nenhum /\ \A i \in Runs : pc[i] = "fim"

\* C18: when two validation ingestions run concurrently over the same
\* calibrator file and the same learning store, the persisted state at the
\* end holds the observations and the records both of them contributed (no
\* lost update).
C18_SemAtualizacaoPerdida ==
    RunsTerminadas =>
        /\ arquivo.pontos = SomaPontos(lido[1].dados, lido[2].dados)
        /\ arquivoBanco.registros = SomaPontos(lido[1].lote, lido[2].lote)


\* the list after the step is the list before it with one observation more
UmaObservacaoAMais ==
    \E o \in Obs :
        \A q \in Obs : Vezes(pontos', q) = Vezes(pontos, q) + (IF q = o THEN 1 ELSE 0)

\* adicionar_ponto appends exactly one observation and leaves the map alone
AdicionarSoAcrescenta ==
    op' = "adicionar_ponto" => UmaObservacaoAMais /\ mapa' = mapa

\* C19 as stated: the map changes only inside an explicit treinar() call:
\* adicionar_ponto appends exactly one observation and leaves the map
\* unchanged, and calibrar(p) never changes the map or the observation list.
C19_MapaSoMudaNoTreinoExplicito ==
    [][/\ AdicionarSoAcrescenta
       /\ (op' = "calibrar" => mapa' = mapa /\ pontos' = pontos)
       /\ (mapa' # mapa => op' = "treinar")]_vars

\* C19, amended: adicionar_ponto appends exactly one observation and leaves
\* the map unchanged; calibrar(p) never changes the observation list, leaves
\* the map unchanged on a trained calibrator and on an untrained one replaces
\* it by the map treinar() builds; the map changes in no other operation.
C19_MapaSoMudaNoTreino ==
    [][/\ AdicionarSoAcrescenta
       /\ (op' = "calibrar" =>
             /\ pontos' = pontos
             /\ mapa' = IF treinado THEN mapa ELSE TreinarMapa(pontos))
       /\ (mapa' # mapa => op' \in {"treinar", "calibrar"})]_vars

\* calibrar answered from a trained map over a full training set, which
\* adicionar_ponto built one observation at a time
C19_Witness ==
    /\ op = "calibrar"
    /\ ~mapa.none
    /\ ret.origem = "bin"
    /\ adicoes >= MIN_PONTOS_CALIBRACAO
    /\ NumPontos(pontos) = adicoes


\* what calibrar(p) returns on a calibrator with these fields
ValorCalibrado(pts, tr, m, p) ==
    CalibrarRet(IF tr THEN m ELSE TreinarMapa(pts), p).valor

\* C20: saving a calibrator and loading it back preserves its behaviour: for
\* every p, calibrar(p) on the instance carregar returns from the file
\* salvar wrote equals calibrar(p) on the calibrator that was saved,
\* observations received after its last training included.
C20_IdaEVoltaPreservaCalibrar ==
    [][op = "salvar" /\ op' = "carregar" =>
          \A p \in PConsultas :
              ValorCalibrado(pontos', treinado', mapa', p)
                  = ValorCalibrado(pontos, treinado, mapa, p)]_vars


\* C21: the two writers of calibration state agree: the map the validation
\* ingestion persists for a market equals the map treinar computes from the
\* observation list persisted with it (same bins, same values, the identity
\* mapping below 10 observations).
C21_EscritoresConcordam ==
    op = "alimentar_calibradores" /\ arquivo.estado = "ok" =>
        arquivo.mapa = TreinarMapa(arquivo.pontos)


\* C22 as stated: after every completed ingestion run the persisted rule set
\* is the result of mining the persisted record corpus, for any number of
\* accumulated records.
C22_RegrasSempreMineradas ==
    op = "alimentar_calibradores" =>
        arquivoBanco.regras = DescobrirRegras(arquivoBanco.registros)

\* C22, amended: an ingestion run persists the corpus with its new records;
\* when the corpus then holds at least 20 records the persisted rule set is
\* the result of mining it, and below 20 records the rule set is the one the
\* store held before the run.
C22_RegrasMineradasDesdeVinte ==
    [][op' = "alimentar_calibradores" =>
          /\ arquivoBanco' = ArquivoBancoOk(registros', regras')
          /\ regras' = IF TotalRegistros(registros') >= MIN_REGISTROS_RETREINO
                       THEN DescobrirRegras(registros')
                       ELSE regras]_vars

\* C22 witness: a run brought the corpus to 20 records or more and the rules
\* mined from it were persisted.
C22_Witness ==
    /\ op = "alimentar_calibradores"
    /\ TotalRegistros(registros) >= MIN_REGISTROS_RETREINO
    /\ Len(regras) >= 1
    /\ arquivoBanco = ArquivoBancoOk(registros, regras)


\* the conditions of a are among those of b, and b has more
ContidaPropria(a, b) ==
    CondicoesContidas(a, b) /\ a.condicoes # b.condicoes

\* C23: after redundancy filtering the surviving rules of a market form an
\* antichain: no surviving rule's condition set is a proper subset of
\* another surviving rule's, and every discarded rule's condition set is a
\* subset of some surviving rule's.
C23_SobreviventesSaoAnticadeia ==
    op = "filtrar" =>
        /\ \A a, b \in Range(filtradas) : ~ContidaPropria(a, b)
        /\ \A r \in Range(candidatas) \ Range(filtradas) :
              \E a \in Range(filtradas) : CondicoesContidas(r, a)

\* C23 witness: a one-condition rule was discarded that is contained in both
\* survivors, which are two-condition rules neither of which contains the
\* other.
C23_Witness ==
    /\ op = "filtrar"
    /\ Len(candidatas) = 3
    /\ Len(filtradas) = 2
    /\ NumCondicoes(filtradas[1]) = 2
    /\ NumCondicoes(filtradas[2]) = 2
    /\ \E r \in Range(candidatas) \ Range(filtradas) :
          \A a \in Range(filtradas) : ContidaPropria(r, a)


\* the rules of q with other statistics: rule i gets support 8 + i, all hits
ComOutrasEstatisticas(q) ==
    [i \in 1..Len(q) |->
        [q[i] EXCEPT !.total_amostras = MIN_AMOSTRAS_REGRA + i,
                     !.acertos = MIN_AMOSTRAS_REGRA + i,
                     !.taxa_acerto = FracInt(100)]]

CondicoesDasRegras(q) == {q[i].condicoes : i \in 1..Len(q)}

\* C24: the rules surviving _filtrar_redundantes are determined by the set
\* of kept rules alone: every ordering of the same kept rules (distinct
\* condition sets) gives the same surviving set, namely the rules whose
\* condition set is contained in no other kept rule's, and the same
\* condition sets survive whatever the hit rates and supports are.
C24_SobreviventesSoDependemDoConjunto ==
    op = "filtrar" =>
        /\ \A q \in ListasCandidatas :
              Range(q) = Range(candidatas) =>
                  Range(FiltrarRedundantes(q)) = Range(filtradas)
        /\ Range(filtradas) =
              {r \in Range(candidatas) :
                  \A b \in Range(candidatas) : ~ContidaPropria(r, b)}
        /\ CondicoesDasRegras(FiltrarRedundantes(ComOutrasEstatisticas(candidatas)))
              = CondicoesDasRegras(filtradas)

\* C24 witness: the general rule came first in the input, before an
\* unrelated rule and the rule that contains it; the sort put it last and
\* it was discarded.
C24_Witness ==
    /\ op = "filtrar"
    /\ Len(candidatas) = 3
    /\ ContidaPropria(candidatas[1], candidatas[3])
    /\ ~CondicoesContidas(candidatas[2], candidatas[3])
    /\ ~CondicoesContidas(candidatas[1], candidatas[2])
    /\ Range(filtradas) = {candidatas[2], candidatas[3]}


\* the records of market m whose forecast fell in probability bucket v
GrupoFaixaProb(m, v) ==
    {r \in DoMercado(registros, m) : r.resultado.faixa_prob = v}

\* C25: the probability bucket faixa_prob takes part in mining like the other
\* listed factors: after a retrain, a group of at least 8 records of one
\* mined market that share a faixa_prob value, with a hit rate of 75% or
\* more, gives a rule of that market conditioned on that faixa_prob value.
C25_FaixaProbParticipa ==
    RetreinoFeito =>
        \A m \in MercadosBanco \ MERCADOS_EXCLUIDOS_REGRAS :
            \A v \in {RegistrosEntrada[k].resultado.faixa_prob : k \in DOMAIN RegistrosEntrada} :
                LET total == Quantos(registros, GrupoFaixaProb(m, v))
                    acertos == Quantos(registros,
                                       {r \in GrupoFaixaProb(m, v) : r.resultado.acertou})
                IN (total >= MIN_AMOSTRAS_REGRA /\ 100 * acertos >= THRESHOLD_OURO * total) =>
                       \E i \in DOMAIN regras : TemCondicao(regras[i], m, "faixa_prob", v)


\* the corpus without the records of the markets other than m
RestritoAoMercado(reg, m) ==
    [i \in {k \in DOMAIN reg : RegistrosEntrada[k].resultado.mercado = m} |-> reg[i]]

\* the rules of q with their ids blanked
SemIds(q) == [i \in 1..Len(q) |-> [q[i] EXCEPT !.id = 0]]

\* C26: mining is independent per market: after a retrain the rules of
\* market m in the merged list, in their order and with their conditions,
\* support, hits, hit rate and tier, are the rules mined from the records
\* of m alone; the records of the other markets change only ids and
\* positions.
C26_MineracaoIndependentePorMercado ==
    RetreinoFeito =>
        \A m \in MercadosBanco :
            SemIds(SelectSeq(regras, LAMBDA r : r.mercado = m))
                = SemIds(DescobrirRegras(RestritoAoMercado(registros, m)))

\* C26 witness: the merged list holds rules of two markets, and the first
\* rule of one market comes after a rule of the other.
C26_Witness ==
    /\ RetreinoFeito
    /\ \E i, j \in DOMAIN regras :
          /\ i < j
          /\ regras[i].mercado = "Over 4.5 Cartoes"
          /\ regras[j].mercado = "Over 3.5 Cartoes"
          /\ \A k \in 1..(i - 1) : regras[k].mercado = "Over 4.5 Cartoes"
    /\ DoMercado(registros, "Over 3.5 Cartoes") # {}
    /\ DoMercado(registros, "Over 4.5 Cartoes") # {}


\* a < b and a <= b by the sign of a - b, whatever the denominators
Menor(a, b) == FracSub(a, b)[1] < 0
MenorOuIgual(a, b) == FracSub(a, b)[1] <= 0

\* |a - b|
Distancia(a, b) == IF MenorOuIgual(b, a) THEN FracSub(a, b) ELSE FracSub(b, a)

\* C27 as stated: whenever lambda_raw differs from the league baseline,
\* lambda_shrunk is strictly nearer to the baseline than lambda_raw, for
\* every input.
C27_ShrinkageSempreAproxima ==
    (LambdaCalculado /\ calculo.lambda_final_raw # calculo.lambda_base) =>
        Menor(Distancia(calculo.lambda_shrunk, calculo.lambda_base),
               Distancia(calculo.lambda_final_raw, calculo.lambda_base))

\* C27, amended: lambda_shrunk is never farther from the baseline than
\* lambda_raw; when lambda_raw differs from the baseline and the baseline
\* lies within [2, 10], lambda_shrunk is strictly nearer to it.
C27_ShrinkageAproximaDentroDosLimites ==
    LambdaCalculado =>
        /\ MenorOuIgual(Distancia(calculo.lambda_shrunk, calculo.lambda_base),
                  Distancia(calculo.lambda_final_raw, calculo.lambda_base))
        /\ (calculo.lambda_final_raw # calculo.lambda_base
              /\ DentroDosLimites(calculo.lambda_base)) =>
                Menor(Distancia(calculo.lambda_shrunk, calculo.lambda_base),
                       Distancia(calculo.lambda_final_raw, calculo.lambda_base))

\* C27 witness: low-quality data give the minimum weight 0.3, the baseline
\* is 5.4 and lambda_raw lies above it; lambda_shrunk lies strictly between.
C27_Witness ==
    /\ LambdaCalculado
    /\ calculo.peso_shrinkage = Frac(3, 10)
    /\ partida.qualidade.score_total = 20
    /\ calculo.lambda_base = Frac(27, 5)
    /\ FracLt(calculo.lambda_base, calculo.lambda_shrunk)
    /\ FracLt(calculo.lambda_shrunk, calculo.lambda_final_raw)


\* calibrar(p) ran on a map that has bins, none of them the bin of p
BinAusente ==
    /\ op = "calibrar"
    /\ ~mapa.none
    /\ DOMAIN mapa.bins # {}
    /\ Bin(ret.p) \notin DOMAIN mapa.bins

\* v lies between a and b, in whichever order they are
EntreValores(v, a, b) ==
    \/ FracLe(a, v) /\ FracLe(v, b)
    \/ FracLe(b, v) /\ FracLe(v, a)

\* C28: on a trained calibrator whose map lacks the bin of p, calibrar(p)
\* returns the lowest trained bin's value when the bin of p is below the
\* trained range, the highest trained bin's value when it is above, and
\* otherwise the linear interpolation between the two nearest trained bins,
\* which lies between the values of those two bins.
C28_ForaDoBinInterpolaOuLimita ==
    BinAusente =>
        LET d == mapa.bins
            b == Bin(ret.p)
            abaixo == {k \in DOMAIN d : k < b}
            acima == {k \in DOMAIN d : k > b}
        IN /\ erro = ""
           /\ abaixo = {} =>
                 ret.valor = d[CHOOSE k \in acima : \A j \in acima : k <= j]
           /\ acima = {} =>
                 ret.valor = d[CHOOSE k \in abaixo : \A j \in abaixo : k >= j]
           /\ (abaixo # {} /\ acima # {}) =>
                 LET k == CHOOSE x \in abaixo : \A j \in abaixo : x >= j
                     k2 == CHOOSE x \in acima : \A j \in acima : x <= j
                 IN /\ FracMul(FracInt(k2 - k), ret.valor)
                         = FracAdd(FracMul(FracInt(k2 - b), d[k]),
                                   FracMul(FracInt(b - k), d[k2]))
                    /\ EntreValores(ret.valor, d[k], d[k2])

\* C28 witness: calibrar(57) on a map with bins 50 and 70 of different
\* values returned a value strictly between the two.
C28_Witness ==
    /\ BinAusente
    /\ ret.p = 57
    /\ DOMAIN mapa.bins = {50, 70}
    /\ FracLt(mapa.bins[50], ret.valor)
    /\ FracLt(ret.valor, mapa.bins[70])


\* the referee has no average over 5 or 10 games and neither team has one
SemMediasNaPartida ==
    /\ FracLe(partida.media_amarelos_5j, FracInt(0))
    /\ FracLe(partida.media_amarelos_10j, FracInt(0))
    /\ FracLe(partida.amarelos_mandante, FracInt(0))
    /\ FracLe(partida.amarelos_visitante, FracInt(0))

\* the league baseline calcular_lambda works with: 5.0 when none is given
BaseDaLiga ==
    IF FracLe(partida.media_liga, FracInt(0)) THEN FracInt(LAMBDA_FALLBACK)
    ELSE partida.media_liga

\* C29: when both referee averages and both team averages are missing
\* (<= 0), calcular_lambda raises nothing and its fallbacks give
\* delta_arbitro = 0, delta_times = 0 and ajuste_recencia = 0, so lambda_raw
\* and lambda_shrunk are the league baseline limited to [2, 10] (the
\* baseline being 5.0 when the league has none).
C29_SemMediasDaBaseDaLiga ==
    (LambdaCalculado /\ SemMediasNaPartida) =>
        LET limitada == FracMax(FracInt(LAMBDA_MIN), FracMin(FracInt(LAMBDA_MAX), BaseDaLiga))
        IN /\ erro = ""
           /\ calculo.lambda_base = BaseDaLiga
           /\ calculo.delta_arbitro = FracInt(0)
           /\ calculo.delta_times = FracInt(0)
           /\ calculo.ajuste_recencia = FracInt(0)
           /\ calculo.lambda_final_raw = limitada
           /\ calculo.lambda_shrunk = limitada

\* C29 witness: nothing is known, not even the league average; each team
\* gets half of the fallback baseline 5.0 and lambda_shrunk is 5.0.
C29_Witness ==
    /\ LambdaCalculado
    /\ SemMediasNaPartida
    /\ partida.media_liga = FracInt(0)
    /\ calculo.amarelos_mandante = Frac(5, 2)
    /\ calculo.amarelos_visitante = Frac(5, 2)
    /\ calculo.lambda_shrunk = FracInt(LAMBDA_FALLBACK)


(***************************************************************************)
(* Properties of retry_on_failure (SpecRetry).                             *)
(***************************************************************************)
WrapperChamado == rt # Nenhum
WrapperTerminou == WrapperChamado /\ rt.estado \in {"retornou", "levantou"}

\* the calls of the wrapped function that returned a value
Sucessos == {i \in DOMAIN rt.historico : rt.historico[i] \in ValoresRetorno}

\* what holds of a call of the wrapper whatever max_attempts is: the calls
\* stop at the first success or unlisted exception, a normal return after a
\* call hands back the value of the successful call, an exception raised is
\* the one of the last call, and every wait lies between two attempts
RetryEmGeral ==
    /\ \A i \in DOMAIN rt.historico :
          rt.historico[i] \notin ExcecoesListadas => i = Len(rt.historico)
    /\ rt.esperas <= Len(rt.historico)
    /\ rt.estado = "tentando" => rt.esperas = Len(rt.historico)
    /\ WrapperTerminou =>
          /\ rt.historico # <<>> => rt.esperas = Len(rt.historico) - 1
          /\ (rt.estado = "retornou" /\ rt.historico # <<>>) =>
                /\ Sucessos = {Len(rt.historico)}
                /\ rt.retorno = rt.historico[Len(rt.historico)]
          /\ rt.estado = "levantou" =>
                /\ Sucessos = {}
                /\ rt.historico # <<>>
                /\ rt.excecao = rt.historico[Len(rt.historico)]
                /\ (rt.excecao \in ExcecoesListadas => Len(rt.historico) = rt.max_attempts)

\* C30 as stated: a function wrapped with max_attempts = n is invoked at
\* most n times, the wrapper stops at the first successful call and returns
\* its result, waits only between attempts, after n failed attempts raises
\* the last exception, and never returns normally without one successful
\* call.
C30_RetryNuncaRetornaSemSucesso ==
    WrapperChamado =>
        /\ Len(rt.historico) <= rt.max_attempts
        /\ RetryEmGeral
        /\ rt.estado = "retornou" => Sucessos # {}

\* C30, amended: for max_attempts = n >= 1 the function is invoked at most n
\* times, the wrapper stops at the first successful call and returns its
\* result, waits only between attempts, after n failed attempts raises the
\* last exception, and returns normally only after a successful call; for
\* n <= 0 the function is never invoked and the wrapper returns None.
C30_RetryComPeloMenosUmaTentativa ==
    WrapperChamado =>
        /\ Len(rt.historico) <= rt.max_attempts
        /\ RetryEmGeral
        /\ (rt.estado = "retornou" /\ rt.max_attempts >= 1) => Sucessos # {}
        /\ rt.max_attempts <= 0 =>
              /\ rt.estado = "retornou"
              /\ rt.retorno = "None"
              /\ rt.historico = <<>>

\* C30 witness: with max_attempts = 3 the first two calls raised, the third
\* returned, and the wrapper slept twice and returned that value.
C30_Witness ==
    /\ WrapperChamado
    /\ rt.max_attempts = 3
    /\ rt.estado = "retornou"
    /\ rt.historico = <<"HTTP 500", "Timeout", "json">>
    /\ rt.esperas = 2
    /\ rt.retorno = "json"

====
